---------------------------- MODULE Spec2Model ----------------------------
(***************************************************************************)
(* A model of json-rust's Grisu3 double-to-text writer (src/src/grisu.rs)  *)
(* and of its decimal Number type (src/src/number.rs).                     *)
(*                                                                         *)
(* TLC's integers are 32 bits wide, so every u64 of the program is a       *)
(* natural number held as a little-endian sequence of 16-bit limbs with no *)
(* leading zero limb (zero is << >>); two such sequences are equal exactly *)
(* when the numbers are.  The N* operators are exact arithmetic on these   *)
(* naturals, the W* operators are the program's wrapping u64 arithmetic.   *)
(***************************************************************************)
EXTENDS Integers, Sequences, FiniteSets, TLC

VARIABLES
    pc,        \* "idle" | "built" | "returned" | "panicked"
    op,        \* the entry point called last
    checks,    \* whether the build traps arithmetic overflow (debug) or wraps
    panic,     \* the panic message, "" when the call returned
    v,         \* write: the bit pattern of the f64 argument (cast_u64(v))
    uninit,    \* write: the byte an unwritten cell of buf yields when read
    sink,      \* write: the bytes handed to writer.write_all
    success,   \* write: grisu3's return value
    digits,    \* write: the bytes grisu3 left in s2[0..len)
    d_exp,     \* write: the decimal exponent grisu3 returned
    layout,    \* write: the branch of the formatter that ran
    its_val,   \* i_to_str: the argument
    its_str,   \* i_to_str: the bytes written from the pointer on
    its_ret,   \* i_to_str: the value returned
    lhs,       \* eq: self
    rhs,       \* eq: other
    eqres,     \* eq: the value of lhs == rhs
    cv_ty,     \* Number::from / $t::from: the native integer type
    cv_int,    \* Number::from: the pattern of the integer argument
    cv_num,    \* the Number that Number::from built or $t::from was given
    cv_out,    \* $t::from: the pattern of the integer returned
    cv_rt,     \* $t::from: whether it was given the Number Number::from built
    fx_point,  \* as_fixed_point_*: the argument point
    fx_out,    \* as_fixed_point_*: the Option returned
    fn_args,   \* multiply, round_weed, largest_pow10: the arguments
    fn_out     \* multiply, round_weed, largest_pow10: the value returned

vars == <<pc, op, checks, panic, v, uninit, sink, success, digits, d_exp,
          layout, its_val, its_str, its_ret, lhs, rhs, eqres,
          cv_ty, cv_int, cv_num, cv_out, cv_rt, fx_point, fx_out, fn_args, fn_out>>

-----------------------------------------------------------------------------
(* Exact natural-number arithmetic on limb sequences.  Every operator looks  *)
(* at its operands before anything else, so that a nest of operations is     *)
(* evaluated innermost first.                                                *)

LimbBase == 2 ^ 16

Max(a, b) == IF a >= b THEN a ELSE b
Min(a, b) == IF a <= b THEN a ELSE b

Limb(a, i) == IF i >= 1 /\ i <= Len(a) THEN a[i] ELSE 0

\* The position of the most significant non-zero limb of s, 0 if there is none.
Top(s) ==
    IF \A i \in 1..Len(s) : s[i] = 0 THEN 0
    ELSE CHOOSE i \in 1..Len(s) : s[i] # 0 /\ \A j \in (i + 1)..Len(s) : s[j] = 0

\* A limb sequence without its leading (most significant) zero limbs.
Norm(s) == SubSeq(s, 1, Top(s))

\* The natural number n (0 <= n < 2^31) as a limb sequence.
N(n) == Norm(<<n % LimbBase, n \div LimbBase>>)

\* A 64-bit constant of at least 2^48 from its four 16-bit groups, most
\* significant first, as the source writes it in hexadecimal.
H4(a, b, c, d) == <<d, c, b, a>>

\* The value of a limb sequence known to be below 2^31.
ToInt(a) == Limb(a, 1) + LimbBase * Limb(a, 2)

\* a < b: at the most significant limb where they differ, a has the lesser.
NLt(a, b) ==
    \E i \in 1..Len(b) :
        /\ Limb(a, i) < b[i]
        /\ \A j \in (i + 1)..Max(Len(a), Len(b)) : Limb(a, j) = Limb(b, j)

NLe(a, b) == ~NLt(b, a)
NGe(a, b) == ~NLt(a, b)
NGt(a, b) == NLt(b, a)

\* The carry into limb i of a + b: it is decided by the nearest lower column
\* whose sum is not LimbBase - 1.
Carry(a, b, i) ==
    \E j \in 1..(i - 1) :
        /\ Limb(a, j) + Limb(b, j) >= LimbBase
        /\ \A k \in (j + 1)..(i - 1) : Limb(a, k) + Limb(b, k) = LimbBase - 1

\* The n low limbs of a + b.
AddW(a, b, n) ==
    IF Len(a) = 0 /\ Len(b) = 0 THEN << >>
    ELSE Norm([i \in 1..n |->
                 (Limb(a, i) + Limb(b, i) + (IF Carry(a, b, i) THEN 1 ELSE 0))
                     % LimbBase])

\* a + b.
NAdd(a, b) == AddW(a, b, Max(Len(a), Len(b)) + 1)

\* The borrow into limb i of a - b: it is decided by the nearest lower limb
\* where a and b differ.
Borrow(a, b, i) ==
    \E j \in 1..(i - 1) :
        /\ Limb(a, j) < Limb(b, j)
        /\ \A k \in (j + 1)..(i - 1) : Limb(a, k) = Limb(b, k)

\* The n low limbs of a - b, which is a - b modulo LimbBase^n.
SubW(a, b, n) ==
    IF Len(a) = 0 /\ Len(b) = 0 THEN << >>
    ELSE Norm([i \in 1..n |->
                 (Limb(a, i) - Limb(b, i) - (IF Borrow(a, b, i) THEN 1 ELSE 0))
                     % LimbBase])

\* a - b for a >= b.
NSub(a, b) == SubW(a, b, Len(a))

\* a * s for a small factor 0 <= s <= 2^15: the low halves of the limb
\* products plus their high halves one limb up.
NMulS(a, s) ==
    IF Len(a) = 0 THEN << >>
    ELSE NAdd([i \in 1..Len(a) |-> (a[i] * s) % LimbBase],
              <<0>> \o [i \in 1..Len(a) |-> (a[i] * s) \div LimbBase])

\* The n low limbs of a * 2^k.
ShlW(a, k, n) ==
    IF Len(a) = 0 THEN << >>
    ELSE Norm([i \in 1..n |->
                 ((Limb(a, i - (k \div 16)) % (2 ^ (16 - (k % 16)))) * (2 ^ (k % 16)))
                 + (Limb(a, i - (k \div 16) - 1) \div (2 ^ (16 - (k % 16))))])

\* a * 2^k, floor(a / 2^k) and a mod 2^k.
NShl(a, k) == ShlW(a, k, Len(a) + (k \div 16) + 1)

NShr(a, k) ==
    IF Len(a) = 0 THEN << >>
    ELSE Norm([i \in 1..Max(Len(a) - (k \div 16), 0) |->
                 (Limb(a, i + (k \div 16)) \div (2 ^ (k % 16)))
                 + ((Limb(a, i + (k \div 16) + 1) % (2 ^ (k % 16)))
                        * (2 ^ (16 - (k % 16))))])

NLow(a, k) ==
    IF Len(a) = 0 THEN << >>
    ELSE Norm([i \in 1..Min(Len(a), (k \div 16) + 1) |->
                 IF i <= k \div 16 THEN a[i] ELSE a[i] % (2 ^ (k % 16))])

\* Byte j (from 0, least significant first) of b.
Byte(b, j) == (Limb(b, (j \div 2) + 1) \div (IF j % 2 = 0 THEN 1 ELSE 256)) % 256

\* The sum over i in lo..hi of a[i] times the low (par = 0) or high (par = 1)
\* byte of b[k - i + 1], by halving the range.
RECURSIVE ColSum(_, _, _, _, _, _)
ColSum(a, b, k, par, lo, hi) ==
    IF lo > hi THEN 0
    ELSE IF lo = hi THEN a[lo] * Byte(b, 2 * (k - lo) + par)
    ELSE ColSum(a, b, k, par, lo, (lo + hi) \div 2)
         + ColSum(a, b, k, par, ((lo + hi) \div 2) + 1, hi)

\* The column sums of the products of the limbs of a with the low (par = 0)
\* or high (par = 1) bytes of the limbs of b.
Cols(a, b, par) ==
    [k \in 1..(Len(a) + Len(b)) |->
        ColSum(a, b, k, par, Max(1, k + 1 - Len(b)), Min(Len(a), k))]

\* The number whose limb k, before carries, is the column sum c[k]: each
\* column sum splits into a limb and a carry.
Spread(c) ==
    NAdd([k \in 1..Len(c) |-> c[k] % LimbBase],
         <<0>> \o [k \in 1..Len(c) |-> c[k] \div LimbBase])

\* a * b for operands of fewer than 128 limbs: the products with the low
\* bytes of the limbs of b plus 2^8 times the products with the high bytes.
NMul(a, b) ==
    IF Len(a) = 0 \/ Len(b) = 0 THEN << >>
    ELSE NAdd(Spread(Cols(a, b, 0)), NShl(Spread(Cols(a, b, 1)), 8))

\* 5^k, by squaring.
RECURSIVE NPow5(_)
NPow5(k) ==
    IF k < 14 THEN N(5 ^ k)
    ELSE IF k % 2 = 0 THEN NMul(NPow5(k \div 2), NPow5(k \div 2))
    ELSE NMulS(NPow5(k - 1), 5)

\* 10^k.
NPow10(k) == NShl(NPow5(k), k)

-----------------------------------------------------------------------------
(* The program's u64 arithmetic.  The W* operators wrap modulo 2^64, which  *)
(* is what an unchecked (release) build computes; the *Ovf predicates say   *)
(* when the exact result leaves u64, which is where a checked (debug) build *)
(* panics instead.                                                          *)

W64(a) == NLow(a, 64)

WAdd(a, b) == AddW(a, b, 4)
WSub(a, b) == SubW(a, b, 4)
WMul(a, b) == W64(NMul(a, b))
WMulS(a, s) == W64(NMulS(a, s))
WShl(a, k) == ShlW(a, k, 4)

AddOvf(a, b) == Carry(a, b, 5)
SubOvf(a, b) == NLt(a, b)
MulOvf(a, b) == Len(NMul(a, b)) > 4
MulSOvf(a, s) == Len(NMulS(a, s)) > 4

\* x & y on two w-bit values (w a power of two), by halves.
RECURSIVE BitAnd(_, _, _)
BitAnd(x, y, w) ==
    IF x = 0 \/ y = 0 THEN 0
    ELSE IF w = 1 THEN 1
    ELSE (2 ^ (w \div 2))
             * BitAnd(x \div (2 ^ (w \div 2)), y \div (2 ^ (w \div 2)), w \div 2)
         + BitAnd(x % (2 ^ (w \div 2)), y % (2 ^ (w \div 2)), w \div 2)

\* a & b.
NAnd(a, b) ==
    IF Len(a) = 0 \/ Len(b) = 0 THEN << >>
    ELSE Norm([i \in 1..Min(Len(a), Len(b)) |-> BitAnd(a[i], b[i], 16)])

\* x ^ y on two w-bit values (w a power of two), by halves.
RECURSIVE BitXor(_, _, _)
BitXor(x, y, w) ==
    IF x = 0 THEN y
    ELSE IF y = 0 THEN x
    ELSE IF w = 1 THEN 0
    ELSE (2 ^ (w \div 2))
             * BitXor(x \div (2 ^ (w \div 2)), y \div (2 ^ (w \div 2)), w \div 2)
         + BitXor(x % (2 ^ (w \div 2)), y % (2 ^ (w \div 2)), w \div 2)

\* a ^ b.
NXor(a, b) ==
    Norm([i \in 1..Max(Len(a), Len(b)) |-> BitXor(Limb(a, i), Limb(b, i), 16)])

\* A shift by sh of a 64-bit value: a checked build panics unless
\* 0 <= sh < 64, an unchecked one shifts by the low six bits of sh.
ShBad(sh) == sh < 0 \/ sh >= 64
ShAmt(sh) == sh % 64

\* Rust's integer division, which truncates toward zero.
TruncDiv(a, b) ==
    IF (a >= 0) = (b > 0) THEN (IF a >= 0 THEN a ELSE -a) \div (IF b > 0 THEN b ELSE -b)
    ELSE -((IF a >= 0 THEN a ELSE -a) \div (IF b > 0 THEN b ELSE -b))

\* a / d and a % d on a u32 a and a divisor 0 < d <= 10^9 (the entries of
\* POW10_CACHE), from the quotient q and remainder r of the upper 31 bits of
\* a and its lowest bit: [q8, r] with q8 the low eight bits of the quotient.
DivFix(q, r, low, d) ==
    [q8 |-> (2 * (q % 128) + (IF 2 * r + low >= d THEN 1 ELSE 0)) % 256,
     r  |-> N(IF 2 * r + low >= d THEN 2 * r + low - d ELSE 2 * r + low)]

DivHalf(h, low, d) == DivFix(h \div d, h % d, low, d)

DivU32(a, d) == DivHalf(ToInt(NShr(a, 1)), Limb(a, 1) % 2, ToInt(d))

-----------------------------------------------------------------------------
(* src/src/grisu.rs                                                         *)

D64_SIGN         == H4(\H8000, \H0000, \H0000, \H0000)
D64_EXP_MASK     == H4(\H7FF0, \H0000, \H0000, \H0000)
D64_FRACT_MASK   == H4(\H000F, \HFFFF, \HFFFF, \HFFFF)
D64_IMPLICIT_ONE == H4(\H0010, \H0000, \H0000, \H0000)
D64_EXP_POS      == 52
D64_EXP_BIAS     == 1075
DIYFP_FRACT_SIZE == 64
MIN_TARGET_EXP   == -60
MASK32           == <<\HFFFF, \HFFFF>>
MIN_CACHED_EXP   == -348
CACHED_EXP_STEP  == 8

\* D_1_LOG2_10 = 0.30102999566398114, five decimals to a group (the last
\* group has the two that remain).
D_1_LOG2_10 == <<30102, 99956, 63981, 14>>

DiyFp(f, e) == [f |-> f, e |-> e]

Power(fract, b_exp, pd_exp) == [fract |-> fract, b_exp |-> b_exp, d_exp |-> pd_exp]

POW_CACHE == <<
    Power(H4(\Hfa8f, \Hd5a0, \H081c, \H0288), -1220, -348),
    Power(H4(\Hbaae, \He17f, \Ha23e, \Hbf76), -1193, -340),
    Power(H4(\H8b16, \Hfb20, \H3055, \Hac76), -1166, -332),
    Power(H4(\Hcf42, \H894a, \H5dce, \H35ea), -1140, -324),
    Power(H4(\H9a6b, \Hb0aa, \H5565, \H3b2d), -1113, -316),
    Power(H4(\He61a, \Hcf03, \H3d1a, \H45df), -1087, -308),
    Power(H4(\Hab70, \Hfe17, \Hc79a, \Hc6ca), -1060, -300),
    Power(H4(\Hff77, \Hb1fc, \Hbebc, \Hdc4f), -1034, -292),
    Power(H4(\Hbe56, \H91ef, \H416b, \Hd60c), -1007, -284),
    Power(H4(\H8dd0, \H1fad, \H907f, \Hfc3c),  -980, -276),
    Power(H4(\Hd351, \H5c28, \H3155, \H9a83),  -954, -268),
    Power(H4(\H9d71, \Hac8f, \Hada6, \Hc9b5),  -927, -260),
    Power(H4(\Hea9c, \H2277, \H23ee, \H8bcb),  -901, -252),
    Power(H4(\Haecc, \H4991, \H4078, \H536d),  -874, -244),
    Power(H4(\H823c, \H1279, \H5db6, \Hce57),  -847, -236),
    Power(H4(\Hc210, \H9436, \H4dfb, \H5637),  -821, -228),
    Power(H4(\H9096, \Hea6f, \H3848, \H984f),  -794, -220),
    Power(H4(\Hd774, \H85cb, \H2582, \H3ac7),  -768, -212),
    Power(H4(\Ha086, \Hcfcd, \H97bf, \H97f4),  -741, -204),
    Power(H4(\Hef34, \H0a98, \H172a, \Hace5),  -715, -196),
    Power(H4(\Hb238, \H67fb, \H2a35, \Hb28e),  -688, -188),
    Power(H4(\H84c8, \Hd4df, \Hd2c6, \H3f3b),  -661, -180),
    Power(H4(\Hc5dd, \H4427, \H1ad3, \Hcdba),  -635, -172),
    Power(H4(\H936b, \H9fce, \Hbb25, \Hc996),  -608, -164),
    Power(H4(\Hdbac, \H6c24, \H7d62, \Ha584),  -582, -156),
    Power(H4(\Ha3ab, \H6658, \H0d5f, \Hdaf6),  -555, -148),
    Power(H4(\Hf3e2, \Hf893, \Hdec3, \Hf126),  -529, -140),
    Power(H4(\Hb5b5, \Hada8, \Haaff, \H80b8),  -502, -132),
    Power(H4(\H8762, \H5f05, \H6c7c, \H4a8b),  -475, -124),
    Power(H4(\Hc9bc, \Hff60, \H34c1, \H3053),  -449, -116),
    Power(H4(\H964e, \H858c, \H91ba, \H2655),  -422, -108),
    Power(H4(\Hdff9, \H7724, \H7029, \H7ebd),  -396, -100),
    Power(H4(\Ha6df, \Hbd9f, \Hb8e5, \Hb88f),  -369,  -92),
    Power(H4(\Hf8a9, \H5fcf, \H8874, \H7d94),  -343,  -84),
    Power(H4(\Hb944, \H7093, \H8fa8, \H9bcf),  -316,  -76),
    Power(H4(\H8a08, \Hf0f8, \Hbf0f, \H156b),  -289,  -68),
    Power(H4(\Hcdb0, \H2555, \H6531, \H31b6),  -263,  -60),
    Power(H4(\H993f, \He2c6, \Hd07b, \H7fac),  -236,  -52),
    Power(H4(\He45c, \H10c4, \H2a2b, \H3b06),  -210,  -44),
    Power(H4(\Haa24, \H2499, \H6973, \H92d3),  -183,  -36),
    Power(H4(\Hfd87, \Hb5f2, \H8300, \Hca0e),  -157,  -28),
    Power(H4(\Hbce5, \H0864, \H9211, \H1aeb),  -130,  -20),
    Power(H4(\H8cbc, \Hcc09, \H6f50, \H88cc),  -103,  -12),
    Power(H4(\Hd1b7, \H1758, \He219, \H652c),   -77,   -4),
    Power(H4(\H9c40, \H0000, \H0000, \H0000),   -50,    4),
    Power(H4(\He8d4, \Ha510, \H0000, \H0000),   -24,   12),
    Power(H4(\Had78, \Hebc5, \Hac62, \H0000),     3,   20),
    Power(H4(\H813f, \H3978, \Hf894, \H0984),    30,   28),
    Power(H4(\Hc097, \Hce7b, \Hc907, \H15b3),    56,   36),
    Power(H4(\H8f7e, \H32ce, \H7bea, \H5c70),    83,   44),
    Power(H4(\Hd5d2, \H38a4, \Habe9, \H8068),   109,   52),
    Power(H4(\H9f4f, \H2726, \H179a, \H2245),   136,   60),
    Power(H4(\Hed63, \Ha231, \Hd4c4, \Hfb27),   162,   68),
    Power(H4(\Hb0de, \H6538, \H8cc8, \Hada8),   189,   76),
    Power(H4(\H83c7, \H088e, \H1aab, \H65db),   216,   84),
    Power(H4(\Hc45d, \H1df9, \H4271, \H1d9a),   242,   92),
    Power(H4(\H924d, \H692c, \Ha61b, \He758),   269,  100),
    Power(H4(\Hda01, \Hee64, \H1a70, \H8dea),   295,  108),
    Power(H4(\Ha26d, \Ha399, \H9aef, \H774a),   322,  116),
    Power(H4(\Hf209, \H787b, \Hb47d, \H6b85),   348,  124),
    Power(H4(\Hb454, \He4a1, \H79dd, \H1877),   375,  132),
    Power(H4(\H865b, \H8692, \H5b9b, \Hc5c2),   402,  140),
    Power(H4(\Hc835, \H53c5, \Hc896, \H5d3d),   428,  148),
    Power(H4(\H952a, \Hb45c, \Hfa97, \Ha0b3),   455,  156),
    Power(H4(\Hde46, \H9fbd, \H99a0, \H5fe3),   481,  164),
    Power(H4(\Ha59b, \Hc234, \Hdb39, \H8c25),   508,  172),
    Power(H4(\Hf6c6, \H9a72, \Ha398, \H9f5c),   534,  180),
    Power(H4(\Hb7dc, \Hbf53, \H54e9, \Hbece),   561,  188),
    Power(H4(\H88fc, \Hf317, \Hf222, \H41e2),   588,  196),
    Power(H4(\Hcc20, \Hce9b, \Hd35c, \H78a5),   614,  204),
    Power(H4(\H9816, \H5af3, \H7b21, \H53df),   641,  212),
    Power(H4(\He2a0, \Hb5dc, \H971f, \H303a),   667,  220),
    Power(H4(\Ha8d9, \Hd153, \H5ce3, \Hb396),   694,  228),
    Power(H4(\Hfb9b, \H7cd9, \Ha4a7, \H443c),   720,  236),
    Power(H4(\Hbb76, \H4c4c, \Ha7a4, \H4410),   747,  244),
    Power(H4(\H8bab, \H8eef, \Hb640, \H9c1a),   774,  252),
    Power(H4(\Hd01f, \Hef10, \Ha657, \H842c),   800,  260),
    Power(H4(\H9b10, \Ha4e5, \He991, \H3129),   827,  268),
    Power(H4(\He710, \H9bfb, \Ha19c, \H0c9d),   853,  276),
    Power(H4(\Hac28, \H20d9, \H623b, \Hf429),   880,  284),
    Power(H4(\H8044, \H4b5e, \H7aa7, \Hcf85),   907,  292),
    Power(H4(\Hbf21, \He440, \H03ac, \Hdd2d),   933,  300),
    Power(H4(\H8e67, \H9c2f, \H5e44, \Hff8f),   960,  308),
    Power(H4(\Hd433, \H179d, \H9c8c, \Hb841),   986,  316),
    Power(H4(\H9e19, \Hdb92, \Hb4e3, \H1ba9),  1013,  324),
    Power(H4(\Heb96, \Hbf6e, \Hbadf, \H77d9),  1039,  332),
    Power(H4(\Haf87, \H023b, \H9bf0, \Hee6b),  1066,  340)
>>

\* ceil(n * D_1_LOG2_10) for an integer |n| < 20000, multiplying group by
\* group from the last.  The program forms the product in f64; between two
\* integers the rounded product and the exact one have the same ceiling, and
\* n * D_1_LOG2_10 is an integer only for n = 0.
CeilLog(n) ==
    LET a  == IF n >= 0 THEN n ELSE -n
        m4 == a * D_1_LOG2_10[4]
        m3 == a * D_1_LOG2_10[3] + (m4 \div 100)
        m2 == a * D_1_LOG2_10[2] + (m3 \div 100000)
        m1 == a * D_1_LOG2_10[1] + (m2 \div 100000)
        fl == m1 \div 100000
        fr == m1 % 100000 # 0 \/ m2 % 100000 # 0 \/ m3 % 100000 # 0 \/ m4 % 100 # 0
    IN  IF n >= 0 THEN fl + (IF fr THEN 1 ELSE 0) ELSE -fl

\* The index one entry before the one cached_pow computes.
CachedIndexBefore(exp) ==
    TruncDiv(CeilLog(exp + DIYFP_FRACT_SIZE - 1) - MIN_CACHED_EXP - 1, CACHED_EXP_STEP)

\* The index cached_pow computes for exp.
CachedIndex(exp) ==
    TruncDiv(CeilLog(exp + DIYFP_FRACT_SIZE - 1) - MIN_CACHED_EXP - 1, CACHED_EXP_STEP) + 1

\* What cached_pow hands back from the cache entry power.
CachedPower(power) ==
    [ok |-> TRUE, p |-> DiyFp(power.fract, power.b_exp), d_exp |-> power.d_exp]

\* cached_pow from the index i on.
CachedAt(i) ==
    IF i < 0 \/ i >= Len(POW_CACHE)
    THEN [ok |-> FALSE, p |-> DiyFp(<< >>, 0), d_exp |-> 0]
    ELSE CachedPower(POW_CACHE[i + 1])

\* cached_pow: [ok, p, d_exp]; ok is FALSE when POW_CACHE[i] is out of
\* bounds, where the indexing panics.
cached_pow(exp) == CachedAt(CachedIndex(exp))

\* minus asserts x.e == y.e && x.f >= y.f.
MinusPre(x, y) == x.e = y.e /\ NGe(x.f, y.f)

minus(x, y) == DiyFp(WSub(x.f, y.f), x.e)

\* multiply: the halves a, b of x.f and c, d of y.f.
MultiplyHalves(x, y) ==
    [a |-> NShr(x.f, 32), b |-> NAnd(x.f, MASK32),
     c |-> NShr(y.f, 32), d |-> NAnd(y.f, MASK32),
     e |-> x.e + y.e + 64]

\* multiply: the four products of the halves.
MultiplyProducts(h) ==
    [ac |-> WMul(h.a, h.c), bc |-> WMul(h.b, h.c),
     ad |-> WMul(h.a, h.d), bd |-> WMul(h.b, h.d),
     e  |-> h.e]

\* The middle column of multiply without the rounding bit, which truncates
\* the product.
MultiplyTmpTruncated(p) ==
    WAdd(WAdd(NShr(p.bd, 32), NAnd(p.ad, MASK32)), NAnd(p.bc, MASK32))

\* multiply: tmp, the middle column with the rounding bit added.
MultiplyTmp(p) ==
    WAdd(WAdd(WAdd(NShr(p.bd, 32), NAnd(p.ad, MASK32)), NAnd(p.bc, MASK32)),
         NShl(<<1>>, 31))

\* multiply: the value returned.
MultiplySum(p, tmp) ==
    DiyFp(WAdd(WAdd(WAdd(p.ac, NShr(p.ad, 32)), NShr(p.bc, 32)), NShr(tmp, 32)), p.e)

MultiplyRound(p) == MultiplySum(p, MultiplyTmp(p))

multiply(x, y) == MultiplyRound(MultiplyProducts(MultiplyHalves(x, y)))

\* Whether a product of multiply leaves u64.
MultiplyProductsOvf(h) ==
    MulOvf(h.a, h.c) \/ MulOvf(h.b, h.c) \/ MulOvf(h.a, h.d) \/ MulOvf(h.b, h.d)

\* Whether x + y + z + t leaves u64 at one of its three additions.
Sum4Ovf(x, y, z, t) ==
    AddOvf(x, y) \/ AddOvf(WAdd(x, y), z) \/ AddOvf(WAdd(WAdd(x, y), z), t)

\* Whether a sum of multiply leaves u64.
MultiplySumOvf(p, tmp) ==
    \/ Sum4Ovf(NShr(p.bd, 32), NAnd(p.ad, MASK32), NAnd(p.bc, MASK32), NShl(<<1>>, 31))
    \/ Sum4Ovf(p.ac, NShr(p.ad, 32), NShr(p.bc, 32), NShr(tmp, 32))

MultiplyRoundOvf(p) == MultiplySumOvf(p, MultiplyTmp(p))

MultiplyHalvesOvf(h) == MultiplyProductsOvf(h) \/ MultiplyRoundOvf(MultiplyProducts(h))

\* Whether multiply leaves u64 on the way, where a checked build panics.
MultiplyOvf(x, y) == MultiplyHalvesOvf(MultiplyHalves(x, y))

\* normalize_diy_fp asserts n.f != 0 (its loops would not end otherwise).
RECURSIVE NormalizeBy1(_)
NormalizeBy1(n) ==
    IF NAnd(n.f, D64_SIGN) = << >> THEN NormalizeBy1(DiyFp(WShl(n.f, 1), n.e - 1))
    ELSE n

RECURSIVE NormalizeBy10(_)
NormalizeBy10(n) ==
    IF NAnd(n.f, H4(\HFFC0, \H0000, \H0000, \H0000)) = << >>
    THEN NormalizeBy10(DiyFp(WShl(n.f, 10), n.e - 10))
    ELSE n

normalize_diy_fp(n) == NormalizeBy1(NormalizeBy10(n))

double2diy_fp(u) ==
    IF NAnd(u, D64_EXP_MASK) = << >>
    THEN DiyFp(NAnd(u, D64_FRACT_MASK), 1 - D64_EXP_BIAS)
    ELSE DiyFp(WAdd(NAnd(u, D64_FRACT_MASK), D64_IMPLICIT_ONE),
               ToInt(NShr(NAnd(u, D64_EXP_MASK), D64_EXP_POS)) - D64_EXP_BIAS)

POW10_CACHE == <<0, 1, 10, 100, 1000, 10000, 100000, 1000000, 10000000,
                 100000000, 1000000000>>

\* largest_pow10 keeping its first guess whatever n is.
LargestFromGuess(n, guess) ==
    [kappa |-> guess, power |-> N(POW10_CACHE[guess + 1])]

\* largest_pow10 from its first guess on.
LargestFrom(n, guess) ==
    IF NLt(n, N(POW10_CACHE[guess + 1]))
    THEN [kappa |-> guess - 1, power |-> N(POW10_CACHE[guess])]
    ELSE [kappa |-> guess, power |-> N(POW10_CACHE[guess + 1])]

\* largest_pow10's first guess, before the cast to usize.
LargestGuess(n_bits) == (((n_bits + 1) * 1233) \div 4096) + 1

\* largest_pow10: [kappa, power]; the cache holds u32 values below 2^31.
largest_pow10(n, n_bits) == LargestFrom(n, LargestGuess(n_bits))

\* The u8 arithmetic on digit bytes: b'0' + digit and *p -= 1.
U8(x) == x % 256

\* The most times a loop body of digit_gen or round_weed is run; every loop
\* writes or steps a byte of write's buf, which has this many.
BUF_SIZE == 32

\* x >= y, or x > y when strict.
Beyond(x, y, strict) == IF strict THEN NLt(y, x) ELSE ~NLt(x, y)

\* round_weed's test of rest against a bound (wp_Wup in the loop, wp_Wdown
\* after it): rest < bound && delta - rest >= ten_kappa && (rest + ten_kappa
\* < bound || bound - rest >= rest + ten_kappa - bound), the last comparison
\* being > when strict.
Weeds(rest, bound, delta, ten_kappa, strict) ==
    /\ NLt(rest, bound)
    /\ NGe(WSub(delta, rest), ten_kappa)
    /\ \/ NLt(WAdd(rest, ten_kappa), bound)
       \/ Beyond(WSub(bound, rest), WSub(WAdd(rest, ten_kappa), bound), strict)

\* Whether that test leaves u64 on the way: delta - rest, then
\* rest + ten_kappa (the later differences are taken where they fit).
WeedsOvf(rest, bound, delta, ten_kappa) ==
    /\ NLt(rest, bound)
    /\ \/ SubOvf(delta, rest)
       \/ /\ NGe(WSub(delta, rest), ten_kappa)
          /\ AddOvf(rest, ten_kappa)

\* One pass of round_weed's loop given the outcome go of its condition, the
\* outcome bad of WeedsOvf and the last byte of the buffer.
RoundWeedPass(st, go, bad, last, ten_kappa) ==
    IF go
    THEN [done |-> FALSE,
          buf  |-> [st.buf EXCEPT ![Len(st.buf)] = U8(last - 1)],
          rest |-> WAdd(st.rest, ten_kappa),
          ovf  |-> st.ovf \/ bad \/ last = 0]
    ELSE [done |-> TRUE, buf |-> st.buf, rest |-> st.rest, ovf |-> st.ovf \/ bad]

\* One pass of round_weed's loop, if its condition holds.
RoundWeedStep(st, wp_Wup, delta, ten_kappa) ==
    RoundWeedPass(st, Weeds(st.rest, wp_Wup, delta, ten_kappa, FALSE),
                  WeedsOvf(st.rest, wp_Wup, delta, ten_kappa),
                  st.buf[Len(st.buf)], ten_kappa)

\* round_weed's loop: up to n passes from st, by halves.
RECURSIVE RoundWeedLoop(_, _, _, _, _)
RoundWeedLoop(st, n, wp_Wup, delta, ten_kappa) ==
    IF st.done THEN st
    ELSE IF n = 1 THEN RoundWeedStep(st, wp_Wup, delta, ten_kappa)
    ELSE RoundWeedLoop(RoundWeedLoop(st, n \div 2, wp_Wup, delta, ten_kappa),
                       n - (n \div 2), wp_Wup, delta, ten_kappa)

\* 2 * ulp < rest && rest < delta - 4 * ulp.
InSafeStrict(rest, delta, ulp) ==
    NLt(WMulS(ulp, 2), rest) /\ NLt(rest, WSub(delta, WMulS(ulp, 4)))

\* 2 * ulp <= rest && rest <= delta - 4 * ulp.
InSafe(rest, delta, ulp) ==
    NLe(WMulS(ulp, 2), rest) /\ NLe(rest, WSub(delta, WMulS(ulp, 4)))

\* Whether that test leaves u64 on the way.
InSafeOvf(rest, delta, ulp) ==
    \/ MulSOvf(ulp, 2)
    \/ /\ NLe(WMulS(ulp, 2), rest)
       /\ (MulSOvf(ulp, 4) \/ SubOvf(delta, WMulS(ulp, 4)))

\* round_weed after its loop, given the outcome unsafe of the test against
\* wp_Wdown and the outcome bad of its WeedsOvf.
RoundWeedEnd(lp, unsafe, bad, delta, ulp) ==
    IF ~lp.done
    THEN [ret |-> -1, buf |-> lp.buf, rest |-> lp.rest, ovf |-> lp.ovf]
    ELSE IF unsafe
    THEN [ret |-> 0, buf |-> lp.buf, rest |-> lp.rest, ovf |-> lp.ovf \/ bad]
    ELSE [ret |-> IF InSafe(lp.rest, delta, ulp) THEN 1 ELSE 0,
          buf |-> lp.buf,
          rest |-> lp.rest,
          ovf |-> lp.ovf \/ bad \/ InSafeOvf(lp.rest, delta, ulp)]

\* round_weed from the end of its loop on.
RoundWeedTest(lp, wp_Wdown, delta, ten_kappa, ulp) ==
    RoundWeedEnd(lp, Weeds(lp.rest, wp_Wdown, delta, ten_kappa, TRUE),
                 WeedsOvf(lp.rest, wp_Wdown, delta, ten_kappa), delta, ulp)

\* round_weed: [ret, buf, rest, ovf], rest being its local at the return;
\* ret is -1 when the loop has not ended after BUF_SIZE passes.
round_weed(buffer, wp_W, delta, rest0, ten_kappa, ulp) ==
    RoundWeedTest(RoundWeedLoop([done |-> FALSE, buf |-> buffer, rest |-> rest0,
                                 ovf |-> SubOvf(wp_W, ulp) \/ AddOvf(wp_W, ulp)],
                                BUF_SIZE, WSub(wp_W, ulp), delta, ten_kappa),
                  WAdd(wp_W, ulp), delta, ten_kappa, ulp)

DgResult(ret, buf, kappa, pre, ovf) ==
    [ret |-> ret, buf |-> buf, kappa |-> kappa, pre |-> pre, ovf |-> ovf]

\* x * 10 as the program computes it, (x << 3) + (x << 1).
Times10(x) == WAdd(WShl(x, 3), WShl(x, 1))
Times10Ovf(x) == AddOvf(WShl(x, 3), WShl(x, 1))

\* A pass of digit_gen's first loop from the quotient and remainder qr of
\* p1 by div and from hi, the remainder shifted: the digit is stored, rest
\* is hi + p2, and the pass ends the loop through round_weed (weed, with rest
\* and div as they are passed on) when rest < unsafe_interval.f.
DigitGenIntPass(st, qr, hi, p2, unsafe) ==
    [done  |-> NLt(WAdd(hi, p2), unsafe),
     weed  |-> NLt(WAdd(hi, p2), unsafe),
     pre   |-> TRUE,
     buf   |-> Append(st.buf, U8(48 + qr.q8)),
     kappa |-> st.kappa - 1,
     p1    |-> qr.r,
     rest  |-> WAdd(hi, p2),
     div   |-> IF NLt(WAdd(hi, p2), unsafe) THEN st.div ELSE N(ToInt(st.div) \div 10),
     ovf   |-> st.ovf \/ 48 + qr.q8 > 255 \/ AddOvf(hi, p2)]

DigitGenIntDigit(st, qr, p2, unsafe, sh) ==
    DigitGenIntPass(st, qr, WShl(qr.r, sh), p2, unsafe)

\* One pass of digit_gen's first loop (a digit of the integer part p1).  The
\* loop is done when kappa reaches 0 or when it returns through round_weed;
\* pre turns FALSE on a division by zero.
DigitGenIntStep(st, p2, unsafe, sh) ==
    IF st.kappa <= 0 \/ st.div = << >>
    THEN [st EXCEPT !.done = TRUE, !.pre = st.kappa <= 0]
    ELSE DigitGenIntDigit(st, DivU32(st.p1, st.div), p2, unsafe, sh)

\* digit_gen's first loop: up to n passes from st, by halves.
RECURSIVE DigitGenInt(_, _, _, _, _)
DigitGenInt(st, n, p2, unsafe, sh) ==
    IF st.done THEN st
    ELSE IF n = 1 THEN DigitGenIntStep(st, p2, unsafe, sh)
    ELSE DigitGenInt(DigitGenInt(st, n \div 2, p2, unsafe, sh),
                     n - (n \div 2), p2, unsafe, sh)

\* A pass of digit_gen's second loop from p2, already times ten, and its
\* digit: the digit is stored, p2 is cut to its fraction, and the loop is
\* done when it returns through round_weed.
DigitGenFracPass(st, p2, digit, one_f) ==
    [done   |-> NLt(NAnd(p2, WSub(one_f, <<1>>)), Times10(st.unsafe)),
     buf    |-> Append(st.buf, U8(48 + digit)),
     kappa  |-> st.kappa - 1,
     p2     |-> NAnd(p2, WSub(one_f, <<1>>)),
     unit   |-> Times10(st.unit),
     unsafe |-> Times10(st.unsafe),
     ovf    |-> \/ st.ovf \/ Times10Ovf(st.p2) \/ Times10Ovf(st.unit)
                \/ Times10Ovf(st.unsafe) \/ 48 + digit > 255]

DigitGenFracDigit(st, p2, sh, one_f) ==
    DigitGenFracPass(st, p2, U8(ToInt(NLow(NShr(p2, sh), 8))), one_f)

\* One pass of digit_gen's second loop (a digit of the fractional part p2).
DigitGenFracStep(st, sh, one_f) == DigitGenFracDigit(st, Times10(st.p2), sh, one_f)

\* digit_gen's second loop: up to n passes from st, by halves.
RECURSIVE DigitGenFrac(_, _, _, _)
DigitGenFrac(st, n, sh, one_f) ==
    IF st.done THEN st
    ELSE IF n = 1 THEN DigitGenFracStep(st, sh, one_f)
    ELSE DigitGenFrac(DigitGenFrac(st, n \div 2, sh, one_f), n - (n \div 2), sh, one_f)

\* digit_gen's return through round_weed.
DigitGenWeed(rw, kappa, ovf) ==
    DgResult(rw.ret, rw.buf, kappa, rw.ret >= 0, ovf \/ rw.ovf)

\* digit_gen from the end of its second loop on.
DigitGenAfterFrac(gf, dist, one_f) ==
    IF ~gf.done
    THEN DgResult(0, gf.buf, gf.kappa, FALSE, gf.ovf)
    ELSE DigitGenWeed(round_weed(gf.buf, WMul(dist, gf.unit), gf.unsafe, gf.p2,
                                 one_f, gf.unit),
                      gf.kappa, gf.ovf \/ MulOvf(dist, gf.unit))

\* digit_gen from the end of its first loop on.
DigitGenAfterInt(gi, dist, unsafe, p2, sh) ==
    IF ~gi.done \/ ~gi.pre
    THEN DgResult(0, gi.buf, gi.kappa, FALSE, gi.ovf)
    ELSE IF gi.weed
    THEN DigitGenWeed(round_weed(gi.buf, dist, unsafe, gi.rest, WShl(gi.div, sh), <<1>>),
                      gi.kappa, gi.ovf)
    ELSE DigitGenAfterFrac(
             DigitGenFrac([done |-> FALSE, buf |-> gi.buf, kappa |-> gi.kappa,
                           p2 |-> p2, unit |-> <<1>>, unsafe |-> unsafe,
                           ovf |-> gi.ovf],
                          BUF_SIZE - Len(gi.buf), sh, WShl(<<1>>, sh)),
             dist, WShl(<<1>>, sh))

\* digit_gen's loops, from p1, p2 and the first power of ten lp.
DigitGenLoops(dist, unsafe, p1, p2, lp, sh, ovf) ==
    DigitGenAfterInt(
        DigitGenInt([done |-> FALSE, weed |-> FALSE, pre |-> TRUE, buf |-> << >>,
                     kappa |-> lp.kappa, p1 |-> p1, rest |-> << >>,
                     div |-> lp.power, ovf |-> ovf],
                    BUF_SIZE, p2, unsafe, sh),
        dist, unsafe, p2, sh)

\* digit_gen from p1 on; a first guess outside POW10_CACHE is where the
\* indexing in largest_pow10 panics.
DigitGenParts(dist, unsafe, p1, p2, w, sh, ovf) ==
    IF LargestGuess(DIYFP_FRACT_SIZE + w.e) \notin 0..(Len(POW10_CACHE) - 1)
    THEN DgResult(0, << >>, 0, FALSE, ovf)
    ELSE DigitGenLoops(dist, unsafe, p1, p2,
                       largest_pow10(p1, DIYFP_FRACT_SIZE + w.e), sh, ovf)

\* digit_gen from too_low and too_high on.
DigitGenBounds(too_low, too_high, w, sh, ovf) ==
    IF ~MinusPre(too_high, too_low) \/ ~MinusPre(too_high, w)
    THEN DgResult(0, << >>, 0, FALSE, ovf)
    ELSE DigitGenParts(minus(too_high, w).f, minus(too_high, too_low).f,
                       NLow(NShr(too_high.f, sh), 32),
                       NAnd(too_high.f, WSub(WShl(<<1>>, sh), <<1>>)),
                       w, sh, ovf)

\* digit_gen: [ret, buf, kappa, pre, ovf].  pre is FALSE when an assertion
\* of minus, an index out of bounds or a division by zero stops the run, or when a loop has not
\* ended with the buffer full; ovf is TRUE when some arithmetic left its
\* type, where a checked build panics.
digit_gen(low, w, high) ==
    DigitGenBounds(DiyFp(WSub(low.f, <<1>>), low.e), DiyFp(WAdd(high.f, <<1>>), high.e),
                   w, ShAmt(-w.e),
                   SubOvf(low.f, <<1>>) \/ AddOvf(high.f, <<1>>) \/ ShBad(-w.e))

\* v > 0.0 && v <= 1.7976931348623157e308 on the bit pattern u of v.
PositiveFinite(u) ==
    /\ u # << >>
    /\ NAnd(u, D64_SIGN) = << >>
    /\ NLt(u, D64_EXP_MASK)

\* grisu3 handing back one digit more than digit_gen made: the same number,
\* written longer.
Grisu3Padded(ret, buf, dexp, pre, ovf) ==
    [success |-> ret, buf |-> IF ret = 1 THEN Append(buf, 48) ELSE buf,
     d_exp |-> IF ret = 1 THEN dexp - 1 ELSE dexp, pre |-> pre, ovf |-> ovf]

Grisu3Result(ret, buf, dexp, pre, ovf) ==
    [success |-> ret, buf |-> buf, d_exp |-> dexp, pre |-> pre, ovf |-> ovf]

\* A grisu3 that adds the cached power's decimal exponent to kappa.
Grisu3EndSum(dg, mk, ovf) ==
    Grisu3Result(dg.ret, dg.buf, dg.kappa + mk, dg.pre, ovf \/ dg.ovf)

\* grisu3's end: *d_exp = kappa - mk.
Grisu3End(dg, mk, ovf) ==
    Grisu3Result(dg.ret, dg.buf, dg.kappa - mk, dg.pre, ovf \/ dg.ovf)

\* grisu3 from the three products m of w, b_minus and b_plus with c_mk on.
Grisu3Digits(m, mk, ovf) == Grisu3End(digit_gen(m[2], m[1], m[3]), mk, ovf)

\* grisu3 from cached_pow's answer cp on; b holds w, b_minus and b_plus.
Grisu3Scale(b, cp, ovf) ==
    IF ~cp.ok THEN Grisu3Result(0, << >>, 0, FALSE, ovf)
    ELSE Grisu3Digits([k \in 1..3 |-> multiply(b[k], cp.p)], cp.d_exp,
                      ovf \/ \E k \in 1..3 : MultiplyOvf(b[k], cp.p))

\* grisu3 from the alignment of b_minus to b_plus on.
Grisu3Align(w, b_min0, b_plus) ==
    Grisu3Scale(<<w,
                  DiyFp(WShl(b_min0.f, ShAmt(b_min0.e - b_plus.e)), b_plus.e),
                  b_plus>>,
                cached_pow(MIN_TARGET_EXP - DIYFP_FRACT_SIZE - w.e),
                ShBad(b_min0.e - b_plus.e))

\* grisu3 from dfp on: w, the lower boundary (closer when the fraction bits
\* are zero and the exponent bits are not), and b_plus.
Grisu3Bounds(u, dfp) ==
    IF dfp.f = << >> \/ ~PositiveFinite(u)
    THEN Grisu3Result(0, << >>, 0, FALSE, FALSE)
    ELSE Grisu3Align(
             normalize_diy_fp(dfp),
             IF NAnd(u, D64_FRACT_MASK) = << >> /\ NAnd(u, D64_EXP_MASK) # << >>
             THEN DiyFp(WSub(WShl(dfp.f, 2), <<1>>), dfp.e - 2)
             ELSE DiyFp(WSub(WShl(dfp.f, 1), <<1>>), dfp.e - 1),
             normalize_diy_fp(DiyFp(WAdd(WShl(dfp.f, 1), <<1>>), dfp.e - 1)))

\* grisu3: [success, buf, d_exp, pre, ovf]; buf holds the length bytes
\* written through buffer.
grisu3(u) == Grisu3Bounds(u, double2diy_fp(u))


exp_len(u) ==
    IF u > 0
    THEN (IF u >= 1000 THEN 4 ELSE IF u >= 100 THEN 3 ELSE IF u >= 10 THEN 2 ELSE 1)
    ELSE IF u < 0
    THEN (IF u <= -1000 THEN 5 ELSE IF u <= -100 THEN 4 ELSE IF u <= -10 THEN 3 ELSE 2)
    ELSE 1

\* The panic of i_to_str's digit expression in a build that checks
\* arithmetic, "" if there is none: a shift count of 32 or more, a
\* difference val - t that leaves i32 (t is the shifted value as a u32
\* pattern, negative as an i32 from 2^31 on), or a byte b'0' + digit above 255.
ItoStrBad(val, sh, t, digit) ==
    IF sh >= 32 THEN "attempt to shift left with overflow"
    ELSE IF NGe(t, NShl(<<1>>, 31)) /\ NLe(t, NAdd(NShl(<<1>>, 31), N(val)))
    THEN "attempt to subtract with overflow"
    ELSE IF 48 + digit > 255 THEN "attempt to add with overflow"
    ELSE ""

RECURSIVE ItoStrLoop(_, _, _)

\* A pass of i_to_str's loop once the digit and the panic of its expression
\* are known.
ItoStrPut(ni, out, chk, digit, bad) ==
    IF chk /\ bad # "" THEN [str |-> out, panic |-> bad]
    ELSE IF ni = 0 \/ Len(out) + 1 >= BUF_SIZE
    THEN [str |-> Append(out, U8(48 + digit)), panic |-> ""]
    ELSE ItoStrLoop(ni, Append(out, U8(48 + digit)), chk)

\* A pass of i_to_str's loop from the shifted value t on; digit is the low
\* byte of val - t.
ItoStrDigit(val, ni, out, chk, t) ==
    ItoStrPut(ni, out, chk, U8(val - (Limb(t, 1) % 256)),
              ItoStrBad(val, 3 + ni, t, U8(val - (Limb(t, 1) % 256))))

\* i_to_str's loop from val >= 0 with the bytes out already written: [str,
\* panic].  The source's digit is val - (ni << 3 + ni << 1), which Rust reads
\* as val - ((ni << (3 + ni)) << 1): in i32 that is val - ni * 2^(sh + 1)
\* modulo 2^32, with the shift count sh = 3 + ni taken modulo 32 by an
\* unchecked build and refused from 32 on by a checked one.
ItoStrLoop(val, out, chk) ==
    ItoStrDigit(val, val \div 10, out, chk,
                NLow(NShl(N(val \div 10), ((3 + (val \div 10)) % 32) + 1), 32))

Reverse(str) == [i \in 1..Len(str) |-> str[Len(str) + 1 - i]]

\* i_to_str once its loop has run.
ItoStrEnd(sign, lp) ==
    [str   |-> sign \o Reverse(lp.str) \o <<0>>,
     n     |-> Len(sign) + Len(lp.str),
     panic |-> lp.panic]

\* i_to_str: [str, n, panic]; str holds every byte written from the pointer
\* on, the closing NUL included, and n is the value returned.
i_to_str(val, chk) ==
    ItoStrEnd(IF val < 0 THEN <<45>> ELSE << >>,
              ItoStrLoop(IF val < 0 THEN -val ELSE val, << >>, chk))

\* write's buf: BUF_SIZE cells, each a byte or -1 while it is as
\* mem::uninitialized() left it, where a read yields the byte un.
Get(buf, i, un) == IF buf[i + 1] < 0 THEN un ELSE buf[i + 1]
Put(buf, i, b) == [buf EXCEPT ![i + 1] = b]
PutAll(buf, at, str) ==
    [i \in 1..Len(buf) |-> IF i > at /\ i <= at + Len(str) THEN str[i - at] ELSE buf[i]]

\* The copy loop of the decimal-point layout from pass i; top is the offset
\* of s2 + len in buf.
RECURSIVE PointCopy(_, _, _, _, _)
PointCopy(buf, top, i, decimals, un) ==
    IF i >= decimals \/ top - i + 2 > Len(buf) THEN buf
    ELSE PointCopy(Put(buf, top - i, Get(buf, top - (i - 1), un)), top, i + 1,
                   decimals, un)

\* The decimal-point layout from the exponent e left after the point, with
\* the point in b1: 'e' goes to s2[len] and i_to_str writes from s2[len] on.
PointExp(b1, at, len, e, its) ==
    IF e = 0 THEN [buf |-> b1, len |-> len, panic |-> ""]
    ELSE [buf   |-> PutAll(Put(b1, at, 101), at, its.str),
          len   |-> len + 1 + its.n,
          panic |-> its.panic]

\* The decimal-point layout: [buf, len, panic].
WritePoint(buf, s2, len, dexp, decimals, un, chk) ==
    PointExp(Put(PointCopy(buf, s2 + len, 0, decimals, un), s2 + len - decimals, 46),
             s2 + len + 1, len + 1, dexp + decimals, i_to_str(dexp + decimals, chk))

\* The copy loop of the leading-zero layout from pass i.
RECURSIVE ShiftCopy(_, _, _, _, _, _)
ShiftCopy(buf, s2, len, dexp, i, un) ==
    IF i >= len \/ s2 + len - dexp - i > Len(buf) THEN buf
    ELSE ShiftCopy(Put(buf, s2 + len - dexp - 1 - i, Get(buf, s2 + len - i - 1, un)),
                   s2, len, dexp, i + 1, un)

\* A loop storing '0' at the offsets i .. cap - 1.
RECURSIVE ZeroFill(_, _, _)
ZeroFill(buf, i, cap) ==
    IF i >= cap \/ i >= Len(buf) THEN buf
    ELSE ZeroFill(Put(buf, i, 48), i + 1, cap)

\* The leading-zero layout: [buf, len, panic].
WriteLeadingZeros(buf, s2, len, dexp, un) ==
    [buf   |-> ZeroFill(Put(ShiftCopy(buf, s2, len, dexp, 0, un), s2, 46),
                        s2 + 1, s2 - dexp),
     len   |-> len - dexp,
     panic |-> ""]

\* The scientific layout once i_to_str has run.
SciExp(buf, at, len, its) ==
    [buf   |-> PutAll(Put(buf, at, 101), at + 1, its.str),
     len   |-> len + 1 + its.n,
     panic |-> its.panic]

\* The scientific layout: [buf, len, panic].
WriteSci(buf, s2, len, dexp, chk) == SciExp(buf, s2 + len, len, i_to_str(dexp, chk))

\* The trailing-zero layout (which leaves buf alone when dexp is 0):
\* [buf, len, panic].
WriteZeros(buf, s2, len, dexp) ==
    [buf |-> ZeroFill(buf, s2 + len, s2 + len + dexp), len |-> len + dexp, panic |-> ""]

\* A write that hands over what buf holds even when it panics.
WrittenEarly(msg, held, g, lay) ==
    [panic |-> msg, sink |-> held,
     success |-> g.success, digits |-> g.buf, d_exp |-> g.d_exp, layout |-> lay]

\* What one call of write leaves behind: the panic message ("" when it
\* returns), the bytes handed to writer.write_all, and the locals success,
\* s2[0..len) and d_exp after grisu3, with the layout chosen.  held is what
\* dst[0 .. s2 + len) holds when the call ends; write_all is the last
\* statement, so a panic leaves the function before it and the bytes held in
\* buf never reach the sink.
Written(msg, held, g, lay) ==
    [panic |-> msg, sink |-> IF msg = "" THEN held ELSE << >>,
     success |-> g.success, digits |-> g.buf, d_exp |-> g.d_exp, layout |-> lay]

NoGrisu == [success |-> 0, buf |-> << >>, d_exp |-> 0]

\* The cells dst[0..n) of buf as a read of them yields them.
Held(buf, n, un) == [i \in 1..n |-> Get(buf, i - 1, un)]

\* buf as write has it when s2 is set: '-' in dst[0] if s2 is past it.
Buf0(s2) == [i \in 1..BUF_SIZE |-> IF i <= s2 THEN 45 ELSE -1]

\* min!(-d_exp, max!(1, len - 1)).
Decimals(dexp, len) == Min(-dexp, Max(1, len - 1))

\* The branch of the formatter that d_exp and len select.
Layout(dexp, len) ==
    IF dexp < 0 /\ (len >= -dexp
                    \/ exp_len(dexp + Decimals(dexp, len)) + 1 <= exp_len(dexp))
    THEN "point"
    ELSE IF dexp < 0 /\ dexp >= -3 THEN "zero-point"
    ELSE IF dexp < 0 \/ dexp > 2 THEN "scientific"
    ELSE "zeros"

\* The formatter on buf with the digits in s2[0..len): [buf, len, panic].
Format(lay, buf, s2, len, dexp, un, chk) ==
    IF lay = "point"
    THEN WritePoint(buf, s2, len, dexp, Decimals(dexp, len), un, chk)
    ELSE IF lay = "zero-point" THEN WriteLeadingZeros(buf, s2, len, dexp, un)
    ELSE IF lay = "scientific" THEN WriteSci(buf, s2, len, dexp, chk)
    ELSE WriteZeros(buf, s2, len, dexp)

\* write's end: the formatter has left w, and writer.write_all takes
\* dst[0 .. s2 + len).
WriteAll(g, lay, w, s2, un) ==
    Written(w.panic, Held(w.buf, s2 + w.len, un), g, lay)

\* write from grisu3's answer g on.
WriteDigits(g, s2, un, chk) ==
    IF ~g.pre THEN Written("assertion failed", Held(Buf0(s2), s2, un), g, "")
    ELSE IF chk /\ g.ovf
    THEN Written("arithmetic overflow", Held(Buf0(s2), s2, un), g, "")
    ELSE IF g.success = 0
    THEN Written("GRISU CANNOT DO!",
                 Held(PutAll(Buf0(s2), s2, g.buf), s2 + Len(g.buf), un), g, "")
    ELSE WriteAll(g, Layout(g.d_exp, Len(g.buf)),
                  Format(Layout(g.d_exp, Len(g.buf)), PutAll(Buf0(s2), s2, g.buf), s2,
                         Len(g.buf), g.d_exp, un, chk),
                  s2, un)

\* write from the sign on: u is the bit pattern of |v|.
WriteAbs(u, s2, un, chk) ==
    IF u = << >>
    THEN Written("", Held(Put(Buf0(s2), s2, 48), s2 + 1, un), NoGrisu, "")
    ELSE IF u = D64_EXP_MASK
    THEN Written("INF!", Held(Buf0(s2), s2, un), NoGrisu, "")
    ELSE WriteDigits(grisu3(u), s2, un, chk)

\* write(writer, v) for v of bit pattern u0, in a build that checks
\* arithmetic overflow (chk) or not, with un in the unwritten cells of buf.
write(u0, un, chk) ==
    IF NGt(WShl(u0, 1), H4(\HFFE0, \H0000, \H0000, \H0000))
    THEN Written("NAN!", << >>, NoGrisu, "")
    ELSE IF NAnd(u0, D64_SIGN) # << >>
    THEN WriteAbs(NXor(u0, D64_SIGN), 1, un, chk)
    ELSE WriteAbs(u0, 0, un, chk)


(***************************************************************************)
(* src/src/number.rs: Number, a sign/NaN category byte, a u64 mantissa and *)
(* an i16 decimal exponent.                                                 *)
(***************************************************************************)
NEGATIVE == 0
POSITIVE == 1
NAN_MASK == 254

Number(category, exponent, mantissa) ==
    [category |-> category, exponent |-> exponent, mantissa |-> mantissa]

NAN == Number(NAN_MASK, 0, << >>)

from_parts(positive, mantissa, exponent) ==
    Number(IF positive THEN 1 ELSE 0, exponent, mantissa)

\* An is_nan that knows the sentinel's category only.
IsNanExact(n) == n.category = NAN_MASK

is_nan(n) == BitAnd(n.category, NAN_MASK, 8) # 0

is_zero(n) == n.mantissa = << >> /\ ~is_nan(n)

is_sign_positive(n) == n.category = POSITIVE

neg(n) == Number(BitXor(n.category, POSITIVE, 8), n.exponent, n.mantissa)

CACHED == <<
    <<1>>,   \* 1e0
    <<10>>,   \* 1e1
    <<100>>,   \* 1e2
    <<1000>>,   \* 1e3
    <<10000>>,   \* 1e4
    <<34464, 1>>,   \* 1e5
    <<16960, 15>>,   \* 1e6
    <<38528, 152>>,   \* 1e7
    <<57600, 1525>>,   \* 1e8
    <<51712, 15258>>,   \* 1e9
    <<58368, 21515, 2>>,   \* 1e10
    <<59392, 18550, 23>>,   \* 1e11
    <<4096, 54437, 232>>,   \* 1e12
    <<40960, 20082, 2328>>,   \* 1e13
    <<16384, 4218, 23283>>,   \* 1e14
    H4(    3, 36222, 42182, 32768),   \* 1e15
    H4(   35, 34546, 28609,     0),   \* 1e16
    H4(  355, 17784, 23946,     0),   \* 1e17
    H4( 3552, 46771, 42852,     0),   \* 1e18
    H4(35527,  8964, 35304,     0)     \* 1e19
>>

\* A decimal_power that reads the table one entry too far.
DecimalPowerNext(e, chk) ==
    [value |-> IF e < 19 THEN CACHED[e + 2] ELSE << >>, panic |-> ""]

\* decimal_power: [value, panic].  From e = 20 on the value is 10u64.pow(e),
\* which overflows u64: a checked build panics, an unchecked one keeps the
\* low 64 bits of 10^e (zero from e = 64 on).
decimal_power(e, chk) ==
    IF e < 20 THEN [value |-> CACHED[e + 1], panic |-> ""]
    ELSE IF chk THEN [value |-> << >>, panic |-> "attempt to multiply with overflow"]
    ELSE [value |-> IF e >= 64 THEN << >> ELSE W64(NPow10(e)), panic |-> ""]

I16(x) == ((x + 32768) % 65536) - 32768
U16(x) == x % 65536

EqResult(res, msg) == [res |-> res, panic |-> msg]

\* eq's branch e_diff > 0, from the power on.
EqUp(self, other, power) ==
    EqResult(WMul(self.mantissa, power.value) = other.mantissa, power.panic)

\* eq's branch e_diff < 0, from the power on.
EqDown(self, other, power) ==
    EqResult(self.mantissa = WMul(other.mantissa, power.value), power.panic)

\* eq from e_diff on; d is the difference of the exponents before it is
\* brought into i16.
EqDiff(self, other, d, e_diff, chk) ==
    IF chk /\ d # e_diff THEN EqResult(FALSE, "attempt to subtract with overflow")
    ELSE IF e_diff = 0 THEN EqResult(self.mantissa = other.mantissa, "")
    ELSE IF e_diff > 0 THEN EqUp(self, other, decimal_power(U16(e_diff), chk))
    ELSE IF chk /\ e_diff = -32768
    THEN EqResult(FALSE, "attempt to negate with overflow")
    ELSE EqDown(self, other, decimal_power(U16(I16(-e_diff)), chk))

\* PartialEq for Number: [res, panic].
eq(self, other, chk) ==
    IF (is_zero(self) /\ is_zero(other)) \/ (is_nan(self) /\ is_nan(other))
    THEN EqResult(TRUE, "")
    ELSE IF self.category # other.category THEN EqResult(FALSE, "")
    ELSE EqDiff(self, other, self.exponent - other.exponent,
                I16(self.exponent - other.exponent), chk)

\* Bit i (from 0) of a.
Bit(a, i) == (Limb(a, (i \div 16) + 1) \div (2 ^ (i % 16))) % 2

\* One step of the long division of a by b, at bit st.i of a: the remainder
\* takes the bit, and gives up b if it holds it.
DivBit(st, r, b) ==
    IF NGe(r, b)
    THEN [q |-> NAdd(NShl(st.q, 1), <<1>>), r |-> NSub(r, b), i |-> st.i - 1]
    ELSE [q |-> NShl(st.q, 1), r |-> r, i |-> st.i - 1]

DivStep(st, a, b) == DivBit(st, NAdd(NShl(st.r, 1), N(Bit(a, st.i))), b)

\* n steps of the long division from st (n <= st.i + 1, the bits left), by
\* halves.
RECURSIVE DivLoop(_, _, _, _)
DivLoop(st, n, a, b) ==
    IF st.i < 0 THEN st
    ELSE IF n = 1 THEN DivStep(st, a, b)
    ELSE DivLoop(DivLoop(st, n \div 2, a, b), n - (n \div 2), a, b)

\* floor(a / b) for a < 2^64 and b > 0.
NDiv(a, b) ==
    IF Len(a) = 0 \/ Len(b) = 0 THEN << >>
    ELSE DivLoop([q |-> << >>, r |-> << >>, i |-> 63], 64, a, b).q

\* The native integer types, as their names; isize and usize are the 64-bit
\* ones of the usual targets.  A value of a type of w bits is its pattern of
\* w bits (two's complement for the signed types), a natural below 2^w.
SignedTypes   == {"i8", "i16", "i32", "i64", "isize"}
UnsignedTypes == {"u8", "u16", "u32", "u64", "usize"}

Bits(t) ==
    IF t \in {"i8", "u8"} THEN 8
    ELSE IF t \in {"i16", "u16"} THEN 16
    ELSE IF t \in {"i32", "u32"} THEN 32
    ELSE 64

\* The pattern of the least value of a signed type of w bits, 2^(w-1).
MinPat(w) == NShl(<<1>>, w - 1)

\* Whether the pattern p of a signed type of w bits is below zero.
Negative(p, w) == NGe(p, MinPat(w))

\* -x on the pattern of w bits.
NegPat(p, w) == NLow(NSub(NShl(<<1>>, w), p), w)

\* The cast of the pattern p of a signed type of w bits to u64, which
\* extends the sign.
SignExtend(p, w) ==
    IF Negative(p, w) THEN NAdd(p, NSub(NShl(<<1>>, 64), NShl(<<1>>, w))) ELSE p

IntResult(value, msg) == [value |-> value, panic |-> msg]

\* From<$t> for Number of impl_signed: [value, panic].  -num leaves the type
\* for its least value: a checked build panics, an unchecked one keeps the
\* least value, which the cast to u64 sign-extends.
from_signed(t, p, chk) ==
    IF ~Negative(p, Bits(t)) THEN IntResult(Number(POSITIVE, 0, p), "")
    ELSE IF chk /\ p = MinPat(Bits(t))
    THEN IntResult(NAN, "attempt to negate with overflow")
    ELSE IntResult(Number(NEGATIVE, 0, W64(SignExtend(NegPat(p, Bits(t)), Bits(t)))), "")

\* From<$t> for Number of impl_unsigned.
from_unsigned(t, p, chk) == IntResult(Number(POSITIVE, 0, p), "")

\* Number::from(num) for num of type t.
from_int(t, p, chk) ==
    IF t \in SignedTypes THEN from_signed(t, p, chk) ELSE from_unsigned(t, p, chk)

as_parts(n) == <<n.category = POSITIVE, n.mantissa, n.exponent>>

\* 10u64.pow(e) or 10i64.pow(e) (most the greatest value the type holds):
\* [value, panic], the value being the pattern the unchecked build keeps.
Pow10(e, most, chk) ==
    IF chk /\ NGt(NPow10(Min(e, 20)), most)
    THEN IntResult(<< >>, "attempt to multiply with overflow")
    ELSE IntResult(IF e >= 64 THEN << >> ELSE W64(NPow10(e)), "")

\* The magnitude of the i64 of pattern p.
Magnitude(p) == IF Negative(p, 64) THEN NegPat(p, 64) ELSE p

\* Whether the i64 product of the patterns x and y leaves i64.
IMulOvf(x, y) ==
    IF Negative(x, 64) = Negative(y, 64)
    THEN NGe(NMul(Magnitude(x), Magnitude(y)), MinPat(64))
    ELSE NGt(NMul(Magnitude(x), Magnitude(y)), MinPat(64))

\* impl_integer's product with the power of ten pw, cast to t: the product
\* is of u64 for a positive Number and of i64 for any other.
IntoScaled(t, positive, x, pw, chk) ==
    IF pw.panic # "" THEN pw
    ELSE IF chk /\ (IF positive THEN MulOvf(x, pw.value) ELSE IMulOvf(x, pw.value))
    THEN IntResult(<< >>, "attempt to multiply with overflow")
    ELSE IntResult(NLow(WMul(x, pw.value), Bits(t)), "")

\* impl_integer from the value x the sign gives the mantissa.
IntoSigned(t, positive, x, exponent, chk) ==
    IF exponent <= 0 THEN IntResult(NLow(x, Bits(t)), "")
    ELSE IntoScaled(t, positive, x,
                    Pow10(exponent,
                          IF positive THEN H4(\HFFFF, \HFFFF, \HFFFF, \HFFFF)
                          ELSE H4(\H7FFF, \HFFFF, \HFFFF, \HFFFF), chk),
                    chk)

\* impl_integer from the parts of the Number on.
IntoParts(t, positive, mantissa, exponent, chk) ==
    IF positive THEN IntoSigned(t, TRUE, mantissa, exponent, chk)
    ELSE IF chk /\ mantissa = MinPat(64)
    THEN IntResult(<< >>, "attempt to negate with overflow")
    ELSE IntoSigned(t, FALSE, NegPat(mantissa, 64), exponent, chk)

\* From<Number> for $t of impl_integer: [value, panic], value being the
\* pattern of the result in t.
into_int(t, num, chk) ==
    IntoParts(t, as_parts(num)[1], as_parts(num)[2], as_parts(num)[3], chk)

FixedResult(some, value, msg) == [some |-> some, value |-> value, panic |-> msg]

\* x.wrapping_div(y) on u64, which panics on y = 0.
UDiv(x, pw) ==
    IF pw.panic # "" THEN FixedResult(FALSE, << >>, pw.panic)
    ELSE IF pw.value = << >> THEN FixedResult(FALSE, << >>, "attempt to divide by zero")
    ELSE FixedResult(TRUE, NDiv(x, pw.value), "")

\* x.wrapping_div(y) on the patterns of i64, which truncates toward zero,
\* keeps i64::MIN for i64::MIN / -1 and panics on y = 0.
IDiv(x, pw) ==
    IF pw.panic # "" THEN FixedResult(FALSE, << >>, pw.panic)
    ELSE IF pw.value = << >> THEN FixedResult(FALSE, << >>, "attempt to divide by zero")
    ELSE IF Negative(x, 64) = Negative(pw.value, 64)
    THEN FixedResult(TRUE, W64(NDiv(Magnitude(x), Magnitude(pw.value))), "")
    ELSE FixedResult(TRUE, NegPat(NDiv(Magnitude(x), Magnitude(pw.value)), 64), "")

\* x.wrapping_mul(y).
FixedMul(x, pw) ==
    IF pw.panic # "" THEN FixedResult(FALSE, << >>, pw.panic)
    ELSE FixedResult(TRUE, WMul(x, pw.value), "")

\* as_fixed_point_u64 and as_fixed_point_i64 (signed) from the sum s of
\* point as i16 and the exponent on; x is the mantissa, or num for i64.
FixedShift(x, s, signed, chk) ==
    IF chk /\ s # I16(s) THEN FixedResult(FALSE, << >>, "attempt to add with overflow")
    ELSE IF I16(s) = 0 THEN FixedResult(TRUE, x, "")
    ELSE IF I16(s) > 0 THEN FixedMul(x, decimal_power(U16(I16(s)), chk))
    ELSE IF chk /\ I16(s) = -32768
    THEN FixedResult(FALSE, << >>, "attempt to negate with overflow")
    ELSE IF signed THEN IDiv(x, decimal_power(U16(I16(-I16(s))), chk))
    ELSE UDiv(x, decimal_power(U16(I16(-I16(s))), chk))

\* as_fixed_point_u64: [some, value, panic]; some is FALSE for None.
as_fixed_point_u64(num, point, chk) ==
    IF num.category # POSITIVE THEN FixedResult(FALSE, << >>, "")
    ELSE FixedShift(num.mantissa, I16(point) + num.exponent, FALSE, chk)

\* as_fixed_point_i64: [some, value, panic], value being the pattern of the
\* i64.
as_fixed_point_i64(num, point, chk) ==
    IF is_nan(num) THEN FixedResult(FALSE, << >>, "")
    ELSE IF is_sign_positive(num)
    THEN FixedShift(num.mantissa, I16(point) + num.exponent, TRUE, chk)
    ELSE IF chk /\ num.mantissa = MinPat(64)
    THEN FixedResult(FALSE, << >>, "attempt to negate with overflow")
    ELSE FixedShift(NegPat(num.mantissa, 64), I16(point) + num.exponent, TRUE, chk)


-----------------------------------------------------------------------------
(* The calls explored.  A run makes one call of an entry point or of a      *)
(* function of grisu.rs on its own; a Number that Number::from has built    *)
(* may then be converted back.                                              *)

\* Bit patterns of doubles of every layout, of both kinds of grisu3 outcome,
\* and of the values write rejects.
Notable == {Norm(b) : b \in {
    H4(\H3FF0, \H0000, \H0000, \H0000),   \* 1
    H4(\H3FB9, \H9999, \H9999, \H999A),   \* 0.1
    H4(\H3FE0, \H0000, \H0000, \H0000),   \* 0.5
    H4(\H3F84, \H7AE1, \H47AE, \H147B),   \* 0.01
    H4(\H3F88, \H9374, \HBC6A, \H7EFA),   \* 0.012
    H4(\H3F50, \H624D, \HD2F1, \HA9FC),   \* 0.001
    H4(\H444B, \H1AE4, \HD6E2, \HEF50),   \* 1e21
    H4(\H419D, \H6F34, \H547E, \H6B40),   \* 123456789.123456
    H4(\H7FEF, \HFFFF, \HFFFF, \HFFFF),   \* the largest double
    H4(\H0000, \H0000, \H0000, \H0001),   \* the smallest subnormal
    H4(\H0010, \H0000, \H0000, \H0000),   \* the smallest normal
    H4(\H000F, \HFFFF, \HFFFF, \HFFFF),   \* the largest subnormal
    H4(\H4059, \H0000, \H0000, \H0000),   \* 100
    H4(\H408F, \H4000, \H0000, \H0000),   \* 1000
    H4(\H3FF8, \H0000, \H0000, \H0000),   \* 1.5
    H4(\H3FD0, \H0000, \H0000, \H0000),   \* 0.25
    H4(\H4009, \H1EB8, \H51EB, \H851F),   \* 3.14
    H4(\H3EE4, \HF8B5, \H88E3, \H68F1),   \* 1e-5
    H4(\H3EE9, \HE0FC, \HAF93, \H80FC),   \* 1.234e-5
    H4(\H3F54, \H26FE, \H718A, \H86D7),   \* 0.00123
    H4(\H54B2, \H49AD, \H2594, \HC37D),   \* 1e100
    H4(\H3DE4, \H9DA7, \HE361, \HCE4C),   \* 1.5e-10
    H4(\H40C8, \H1CD6, \HC8B4, \H3958),   \* 12345.678
    H4(\H3E60, \H0000, \H0000, \H0000),   \* 2^-25
    H4(\H4500, \H0000, \H0000, \H0000),   \* 2^81
    H4(\H3E88, \H0000, \H0000, \H0000),   \* 3 * 2^-24
    H4(\H3E7A, \HD7F2, \H9ABC, \HAF48),   \* 1e-7
    H4(\H405E, \H0000, \H0000, \H0000),   \* 120
    H4(\H7E37, \HE43C, \H8800, \H759C),   \* 1e300
    H4(\H4029, \H0000, \H0000, \H0000),   \* 12.5
    H4(\H3FC0, \H0000, \H0000, \H0000),   \* 0.125
    H4(\H3F89, \H9999, \H9999, \H999A),   \* 0.0125
    H4(\H3F54, \H7AE1, \H47AE, \H147B),   \* 0.00125
    H4(\H3FD3, \H3333, \H3333, \H3333),   \* 0.3
    H4(\H3FE5, \H5555, \H5555, \H5555),   \* 2/3
    H4(\H4480, \HF0CF, \H064D, \HD592),   \* 1e22
    H4(\H44B5, \H2D02, \HC7E1, \H4AF6),   \* 1e23
    H4(\H4340, \H0000, \H0000, \H0001),   \* 2^53 + 2
    H4(\H0000, \H0000, \H0000, \H0000),   \* 0
    H4(\H7FF0, \H0000, \H0000, \H0000),   \* Infinity
    H4(\H7FF8, \H0000, \H0000, \H0000),   \* a quiet NaN
    H4(\H7FF0, \H0000, \H0000, \H0001),   \* a signalling NaN
    H4(\H7FFF, \HFFFF, \HFFFF, \HFFFF)    \* the NaN of all ones
}}

MaxExpIdx  == 24
MaxFracIdx == 7

\* A family of bit patterns spread over the subnormals (exponent field 0)
\* and the normal exponent fields 1..2046, with fraction 0 (the powers of
\* two) among the fractions.
ExpFields == {0} \cup {1 + ((173 * j) % 2046) : j \in 0..MaxExpIdx}
Fractions == {NLow(NMul(N(i), H4(\H0009, \HE377, \H9B97, \HF4A7)), D64_EXP_POS) :
                  i \in 0..MaxFracIdx}
Family == {NAdd(NShl(N(x), D64_EXP_POS), f) : x \in ExpFields, f \in Fractions}

Doubles == Family \cup Notable \cup {NAdd(u, D64_SIGN) : u \in Notable}

UninitBytes == {53, 170}

MaxVal == 9999

MaxScale == 2

Mantissas ==
    {NMulS(NPow10(k), m) : k \in 0..MaxScale, m \in {0, 5}}
        \cup {<<1>>, CACHED[20], H4(\H8000, 0, 0, 0),
              H4(\HFFFF, \HFFFF, \HFFFF, \HFFFF)}
Exponents == (-MaxScale..MaxScale) \cup {-32768, -19, 32767}

\* The Numbers from_parts builds, the NaN sentinel, and its negation.
Numbers ==
    {from_parts(s, m, e) : s \in BOOLEAN, m \in Mantissas, e \in Exponents}
        \cup {NAN, neg(NAN)}

\* The native integers converted: the patterns of 0, 1, 5, 100, the greatest
\* value and, for a signed type, of -1, -5, -100 and the least value.
IntPatterns(t) ==
    {<< >>, <<1>>, <<5>>, <<100>>}
        \cup (IF t \in SignedTypes
              THEN {NSub(MinPat(Bits(t)), <<1>>), MinPat(Bits(t)),
                    NegPat(<<1>>, Bits(t)), NegPat(<<5>>, Bits(t)),
                    NegPat(<<100>>, Bits(t))}
              ELSE {NSub(NShl(<<1>>, Bits(t)), <<1>>)})

MaxPointIdx == 3

\* The points of as_fixed_point_*: 0, 2 and values whose cast to i16 or
\* whose sum with the exponent leaves i16.
Points == {0, 2} \cup {(16384 * j + 63) % 65536 : j \in 1..MaxPointIdx}

\* Numbers with the mantissas of the documented examples and of i64's ends.
Priced ==
    {from_parts(s, m, e) : s \in BOOLEAN, e \in {-64, -20, -2, -1, 0, 1, 18, 19, 20},
                           m \in {<<599>>, <<7>>, <<102>>, MinPat(64),
                                  H4(\HFFFF, \HFFFF, \HFFFF, \HFFFF)}}

MaxSigIdx == 3

\* 64-bit significands for multiply: the least and greatest normalized ones,
\* those whose halves are all ones or zero, and a spread of others.
Significands ==
    {H4(\H8000, 0, 0, 0), H4(\HFFFF, \HFFFF, \HFFFF, \HFFFF),
     H4(\HFFFF, \HFFFF, 0, 0), <<\HFFFF, \HFFFF>>, <<1>>, << >>,
     H4(\H8000, 0, 0, 1), H4(\H8000, 0, \H8000, 0)}
        \cup {POW_CACHE[1 + ((29 * j) % 87)].fract : j \in 0..(MaxSigIdx - 1)}

MaxWeed == 9

\* Arguments of round_weed: small u64 values around the bounds it tests.
WeedArgs ==
    {<<wp_W, delta, rest, ten_kappa, ulp>> :
        wp_W \in {<<3>>, <<6>>}, delta \in {N(d) : d \in 6..MaxWeed},
        rest \in {N(r) : r \in 0..5}, ten_kappa \in {<<1>>, <<4>>},
        ulp \in {<<1>>, <<2>>}}

\* Arguments of largest_pow10 (n and n_bits are u32, and n_bits counts the
\* bits of a u32): for each n_bits, the ends of 1 .. 2^n_bits - 1,
\* the least n of n_bits bits and the entries of POW10_CACHE with their
\* predecessors.
PowArgs ==
    {<<n, b>> \in
        ({<<1>>} \cup {N(POW10_CACHE[k]) : k \in 2..11}
                 \cup {N(POW10_CACHE[k] - 1) : k \in 3..11}
                 \cup {NShl(<<1>>, b - 1) : b \in 1..32}
                 \cup {NSub(NShl(<<1>>, b), <<1>>) : b \in 1..32})
        \X (1..32) : NLt(n, NShl(<<1>>, b))}

Init ==
    /\ pc = "idle" /\ op = "none" /\ checks = FALSE /\ panic = ""
    /\ v = << >> /\ uninit = 0 /\ sink = << >> /\ success = 0 /\ digits = << >>
    /\ d_exp = 0 /\ layout = ""
    /\ its_val = 0 /\ its_str = << >> /\ its_ret = 0
    /\ lhs = NAN /\ rhs = NAN /\ eqres = FALSE
    /\ cv_ty = "" /\ cv_int = << >> /\ cv_num = NAN /\ cv_out = << >>
    /\ cv_rt = FALSE /\ fx_point = 0 /\ fx_out = FixedResult(FALSE, << >>, "")
    /\ fn_args = << >> /\ fn_out = << >>

Exit(msg) == IF msg = "" THEN "returned" ELSE "panicked"

grisu_vars == <<v, uninit, sink, success, digits, d_exp, layout>>
its_vars == <<its_val, its_str, its_ret>>
eq_vars == <<lhs, rhs, eqres>>
cv_vars == <<cv_ty, cv_int, cv_num, cv_out, cv_rt>>
fx_vars == <<fx_point, fx_out>>
fn_vars == <<fn_args, fn_out>>

\* grisu::write(writer, v).
Write ==
    /\ pc = "idle"
    /\ \E u \in Doubles, un \in UninitBytes, chk \in BOOLEAN :
           \E r \in {write(u, un, chk)} :
               /\ pc' = Exit(r.panic) /\ op' = "write" /\ checks' = chk
               /\ panic' = r.panic /\ v' = u /\ uninit' = un /\ sink' = r.sink
               /\ success' = r.success /\ digits' = r.digits /\ d_exp' = r.d_exp
               /\ layout' = r.layout
    /\ UNCHANGED <<its_vars, eq_vars, cv_vars, fx_vars, fn_vars>>

\* i_to_str(val, str).
IToStr ==
    /\ pc = "idle"
    /\ \E x \in -MaxVal..MaxVal, chk \in BOOLEAN :
           \E r \in {i_to_str(x, chk)} :
               /\ pc' = Exit(r.panic) /\ op' = "i_to_str" /\ checks' = chk
               /\ panic' = r.panic /\ its_val' = x /\ its_str' = r.str
               /\ its_ret' = r.n
    /\ UNCHANGED <<grisu_vars, eq_vars, cv_vars, fx_vars, fn_vars>>

\* lhs == rhs on Numbers.
Eq ==
    /\ pc = "idle"
    /\ \E a \in Numbers, b \in Numbers, chk \in BOOLEAN :
           \E r \in {eq(a, b, chk)} :
               /\ pc' = Exit(r.panic) /\ op' = "eq" /\ checks' = chk
               /\ panic' = r.panic /\ lhs' = a /\ rhs' = b /\ eqres' = r.res
    /\ UNCHANGED <<grisu_vars, its_vars, cv_vars, fx_vars, fn_vars>>

\* Number::from(num) for a native integer num.
FromInt ==
    /\ pc = "idle"
    /\ \E t \in SignedTypes \cup UnsignedTypes, chk \in BOOLEAN :
           \E p \in IntPatterns(t) :
               \E r \in {from_int(t, p, chk)} :
                   /\ pc' = IF r.panic = "" THEN "built" ELSE "panicked"
                   /\ op' = "from_int" /\ checks' = chk /\ panic' = r.panic
                   /\ cv_ty' = t /\ cv_int' = p /\ cv_num' = r.value
    /\ UNCHANGED <<grisu_vars, its_vars, eq_vars, cv_out, cv_rt, fx_vars, fn_vars>>

\* $t::from(num) for a Number num: one from_parts built, or the one
\* Number::from has just built, converted back to its type.
IntoInt ==
    /\ \/ /\ pc = "idle"
          /\ \E t \in SignedTypes \cup UnsignedTypes, chk \in BOOLEAN :
                 \E n \in Numbers \cup Priced :
                     /\ cv_ty' = t /\ checks' = chk /\ cv_num' = n /\ cv_rt' = FALSE
       \/ /\ pc = "built"
          /\ cv_rt' = TRUE
          /\ UNCHANGED <<cv_ty, checks, cv_num>>
    /\ \E r \in {into_int(cv_ty', cv_num', checks')} :
           /\ pc' = Exit(r.panic) /\ op' = "into_int" /\ panic' = r.panic
           /\ cv_out' = r.value
    /\ UNCHANGED <<grisu_vars, its_vars, eq_vars, cv_int, fx_vars, fn_vars>>

\* num.as_fixed_point_u64(point).
AsFixedPointU64 ==
    /\ pc = "idle"
    /\ \E n \in Numbers \cup Priced, p \in Points, chk \in BOOLEAN :
           \E r \in {as_fixed_point_u64(n, p, chk)} :
               /\ pc' = Exit(r.panic) /\ op' = "as_fixed_point_u64" /\ checks' = chk
               /\ panic' = r.panic /\ cv_num' = n /\ fx_point' = p /\ fx_out' = r
    /\ UNCHANGED <<grisu_vars, its_vars, eq_vars, cv_ty, cv_int, cv_out, cv_rt, fn_vars>>

\* num.as_fixed_point_i64(point).
AsFixedPointI64 ==
    /\ pc = "idle"
    /\ \E n \in Numbers \cup Priced, p \in Points, chk \in BOOLEAN :
           \E r \in {as_fixed_point_i64(n, p, chk)} :
               /\ pc' = Exit(r.panic) /\ op' = "as_fixed_point_i64" /\ checks' = chk
               /\ panic' = r.panic /\ cv_num' = n /\ fx_point' = p /\ fx_out' = r
    /\ UNCHANGED <<grisu_vars, its_vars, eq_vars, cv_ty, cv_int, cv_out, cv_rt, fn_vars>>

\* multiply(x, y) on two DiyFp of any significands.
Multiply ==
    /\ pc = "idle"
    /\ \E xf \in Significands, yf \in Significands, chk \in BOOLEAN :
           \E x \in {DiyFp(xf, -63)}, y \in {DiyFp(yf, 11)} :
               /\ fn_args' = <<x, y>>
               /\ fn_out' = [value |-> multiply(x, y), ovf |-> MultiplyOvf(x, y)]
               /\ panic' = IF chk /\ MultiplyOvf(x, y) THEN "arithmetic overflow" ELSE ""
               /\ checks' = chk
    /\ pc' = Exit(panic') /\ op' = "multiply"
    /\ UNCHANGED <<grisu_vars, its_vars, eq_vars, cv_vars, fx_vars>>

\* round_weed(buffer, len, wp_W, delta, rest, ten_kappa, ulp) on a buffer
\* whose last digit is '5'.
RoundWeed ==
    /\ pc = "idle"
    /\ \E a \in WeedArgs, chk \in BOOLEAN :
           \E r \in {round_weed(<<49, 53>>, a[1], a[2], a[3], a[4], a[5])} :
               /\ fn_args' = a /\ fn_out' = r /\ checks' = chk
               /\ panic' = IF chk /\ r.ovf THEN "arithmetic overflow" ELSE ""
    /\ pc' = Exit(panic') /\ op' = "round_weed"
    /\ UNCHANGED <<grisu_vars, its_vars, eq_vars, cv_vars, fx_vars>>

\* largest_pow10(n, n_bits, &mut power).
LargestPow10 ==
    /\ pc = "idle"
    /\ \E a \in PowArgs :
           /\ fn_args' = a /\ fn_out' = largest_pow10(a[1], a[2])
    /\ pc' = "returned" /\ op' = "largest_pow10" /\ panic' = ""
    /\ UNCHANGED <<checks, grisu_vars, its_vars, eq_vars, cv_vars, fx_vars>>

Next ==
    \/ Eq \/ FromInt \/ IntoInt \/ AsFixedPointU64 \/ AsFixedPointI64
    \/ Multiply \/ RoundWeed \/ LargestPow10 \/ Write \/ IToStr

Spec == Init /\ [][Next]_vars

-----------------------------------------------------------------------------
(* Reading text back.  The text write hands over is read as a decimal       *)
(* literal the way a lenient reader does (an empty integer or fraction part *)
(* is allowed as long as a digit stands somewhere), and a decimal is        *)
(* compared exactly with the rounding interval of a double.                 *)

MaxPow == 400

\* 5^k for k in 0..MaxPow.
Pow5 == [k \in 0..MaxPow |-> NPow5(k)]

IsDigit(b) == b >= 48 /\ b <= 57

\* The least position from i on where str holds the byte b, Len(str) + 1 if
\* there is none.
Find(str, b, i) ==
    IF \E j \in i..Len(str) : str[j] = b
    THEN CHOOSE j \in i..Len(str) : str[j] = b /\ \A k \in i..(j - 1) : str[k] # b
    ELSE Len(str) + 1

\* The number a string of decimal digits denotes, as a limb sequence.
RECURSIVE DecValue(_)
DecValue(str) ==
    IF Len(str) = 0 THEN << >>
    ELSE NAdd(NMulS(DecValue(SubSeq(str, 1, Len(str) - 1)), 10), N(str[Len(str)] - 48))

\* The number a string of at most nine decimal digits denotes.
RECURSIVE DecInt(_)
DecInt(str) ==
    IF Len(str) = 0 THEN 0
    ELSE 10 * DecInt(SubSeq(str, 1, Len(str) - 1)) + (str[Len(str)] - 48)

\* The text of an exponent: an optional sign and one to four digits.
IsExpText(str) ==
    /\ Len(str) >= 1
    /\ \/ IsDigit(str[1]) /\ Len(str) <= 4
       \/ str[1] \in {43, 45} /\ Len(str) >= 2 /\ Len(str) <= 5
    /\ \A i \in 2..Len(str) : IsDigit(str[i])

ExpValue(str) ==
    IF str[1] = 45 THEN -DecInt(SubSeq(str, 2, Len(str)))
    ELSE IF str[1] = 43 THEN DecInt(SubSeq(str, 2, Len(str)))
    ELSE DecInt(str)

\* A text cut at its sign, point and exponent mark: the integer digits, the
\* fraction digits and the exponent text (point and mark are TRUE when the
\* text holds them).
Cut(str, s, dot, mark) ==
    [neg   |-> s = 2,
     int   |-> SubSeq(str, s, Min(dot, mark) - 1),
     frac  |-> SubSeq(str, Min(dot, mark) + 1, mark - 1),
     point |-> dot < mark,
     mark  |-> mark <= Len(str),
     exp   |-> SubSeq(str, mark + 1, Len(str))]

CutAt(str, s) == Cut(str, s, Find(str, 46, s), Find(str, 101, s))

Parts(str) == CutAt(str, IF Len(str) > 0 /\ str[1] = 45 THEN 2 ELSE 1)

\* Whether a lenient reader of decimal literals takes the text.
Readable(str) ==
    /\ \A i \in 1..Len(Parts(str).int) : IsDigit(Parts(str).int[i])
    /\ \A i \in 1..Len(Parts(str).frac) : IsDigit(Parts(str).frac[i])
    /\ Len(Parts(str).int) + Len(Parts(str).frac) >= 1
    /\ Parts(str).mark => IsExpText(Parts(str).exp)

\* What a readable text denotes: (-1)^neg * digits * 10^exp.
Decimal(p) ==
    [neg    |-> p.neg,
     digits |-> DecValue(p.int \o p.frac),
     exp    |-> (IF p.mark THEN ExpValue(p.exp) ELSE 0) - Len(p.frac)]

Read(str) == Decimal(Parts(str))

\* The double of bit pattern u >= 0 is f * 2^e with:
BiasedExp(u) == ToInt(NShr(u, D64_EXP_POS))
Fraction(u) == NAnd(u, D64_FRACT_MASK)
Significand(u) ==
    IF BiasedExp(u) = 0 THEN Fraction(u) ELSE NAdd(Fraction(u), D64_IMPLICIT_ONE)
BinaryExp(u) == IF BiasedExp(u) = 0 THEN 1 - D64_EXP_BIAS ELSE BiasedExp(u) - D64_EXP_BIAS

\* Its rounding interval runs from Low(u) * 2^(e - 2) to High(u) * 2^(e - 2):
\* the midpoints to the doubles before and after it, the one before being
\* half as far when u is a power of two above the subnormals.
Low(u) ==
    NSub(NShl(Significand(u), 2),
         IF Fraction(u) = << >> /\ BiasedExp(u) > 1 THEN <<1>> ELSE <<2>>)
High(u) == NAdd(NShl(Significand(u), 2), <<2>>)

\* digits * 10^q and bound * 2^e2 brought to integers by the same factor.
Scaled10(dg, q, e2) == NShl(NMul(dg, Pow5[Max(q, 0)]), Max(q - e2, 0))
Scaled2(bound, q, e2) == NShl(NMul(bound, Pow5[Max(-q, 0)]), Max(e2 - q, 0))

\* digits * 10^q lies strictly inside the rounding interval of u.
Inside(u, dg, q) ==
    /\ q >= -MaxPow /\ q <= MaxPow
    /\ NLt(Scaled2(Low(u), q, BinaryExp(u) - 2), Scaled10(dg, q, BinaryExp(u) - 2))
    /\ NLt(Scaled10(dg, q, BinaryExp(u) - 2), Scaled2(High(u), q, BinaryExp(u) - 2))

\* digits * 10^q is an end of the rounding interval of u.
OnEdge(u, dg, q) ==
    /\ q >= -MaxPow /\ q <= MaxPow
    /\ \/ Scaled2(Low(u), q, BinaryExp(u) - 2) = Scaled10(dg, q, BinaryExp(u) - 2)
       \/ Scaled10(dg, q, BinaryExp(u) - 2) = Scaled2(High(u), q, BinaryExp(u) - 2)

\* digits * 10^q rounds to the double of pattern u > 0 (to nearest, a tie
\* going to the even significand).
RoundsTo(u, dg, q) ==
    \/ Inside(u, dg, q)
    \/ Limb(u, 1) % 2 = 0 /\ OnEdge(u, dg, q)

\* The text str, read as a decimal literal and rounded to the nearest
\* double, gives the double of bit pattern u0.
ReadsAs(str, u0) ==
    /\ Readable(str)
    /\ Read(str).neg = (NAnd(u0, D64_SIGN) # << >>)
    /\ IF NAnd(u0, D64_SIGN) = u0 \/ u0 = << >> THEN Read(str).digits = << >>
       ELSE RoundsTo(NLow(u0, 63), Read(str).digits, Read(str).exp)

Finite(u0) == NLt(NLow(u0, 63), D64_EXP_MASK)

\* The bytes of a text.
Bytes(t) ==
    [i \in 1..Len(t) |->
        CASE t[i] = "-" -> 45 [] t[i] = "." -> 46 [] t[i] = "e" -> 101
          [] t[i] = "0" -> 48 [] t[i] = "1" -> 49 [] t[i] = "2" -> 50
          [] t[i] = "3" -> 51 [] t[i] = "4" -> 52 [] t[i] = "5" -> 53
          [] t[i] = "6" -> 54 [] t[i] = "7" -> 55 [] t[i] = "8" -> 56
          [] t[i] = "9" -> 57]

\* Whether the text is a number of JSON's grammar: -? (0 | [1-9][0-9]*)
\* (. [0-9]+)? (e [+-]? [0-9]+)?.
IsJsonExp(str) ==
    /\ Len(str) >= 1
    /\ IsDigit(str[1]) \/ (str[1] \in {43, 45} /\ Len(str) >= 2)
    /\ \A i \in 2..Len(str) : IsDigit(str[i])

IsJsonParts(p) ==
    /\ Len(p.int) >= 1
    /\ \A i \in 1..Len(p.int) : IsDigit(p.int[i])
    /\ Len(p.int) = 1 \/ p.int[1] # 48
    /\ p.point => Len(p.frac) >= 1
    /\ \A i \in 1..Len(p.frac) : IsDigit(p.frac[i])
    /\ p.mark => IsJsonExp(p.exp)

IsJsonNumber(str) == IsJsonParts(Parts(str))

\* The decimal text of an integer: '-' for one below zero, then its digits.
RECURSIVE DecDigits(_)
DecDigits(n) ==
    IF n < 10 THEN <<48 + n>> ELSE Append(DecDigits(n \div 10), 48 + (n % 10))

DecText(n) == IF n < 0 THEN <<45>> \o DecDigits(-n) ELSE DecDigits(n)

\* The '-' write puts before the text of a double whose sign bit is set.
SignText(u0) == IF NAnd(u0, D64_SIGN) # << >> THEN <<45>> ELSE << >>

\* The digits dg with a point before the last dec of them, and the exponent
\* e after them when it is not zero.
PointText(dg, dec, e) ==
    SubSeq(dg, 1, Len(dg) - dec) \o <<46>> \o SubSeq(dg, Len(dg) - dec + 1, Len(dg))
        \o (IF e # 0 THEN <<101>> \o DecText(e) ELSE << >>)

\* "0." then zeros then the digits dg, which reads as dg * 10^dexp for
\* -dexp >= Len(dg).
ZeroPointText(dg, dexp) ==
    <<48, 46>> \o [i \in 1..Max(-dexp - Len(dg), 0) |-> 48] \o dg

\* a.mantissa = b.mantissa * 10^k for k = b.exponent - a.exponent >= 0 (a
\* non-zero u64 times 10^k leaves u64 for k above 19).
ScaledFrom(a, b) ==
    /\ b.exponent - a.exponent >= 0 /\ b.exponent - a.exponent <= 19
    /\ a.mantissa = NMul(b.mantissa, NPow10(b.exponent - a.exponent))

\* Two Numbers that from_parts built are one number written twice.
SameNumber(a, b) ==
    /\ a.category \in {NEGATIVE, POSITIVE} /\ b.category \in {NEGATIVE, POSITIVE}
    /\ \/ a.mantissa = << >> /\ b.mantissa = << >>
       \/ a.category = b.category /\ (ScaledFrom(a, b) \/ ScaledFrom(b, a))

\* The absolute value of the signed integer of w bits whose pattern is p.
AbsOf(p, w) == IF NGe(p, NShl(<<1>>, w - 1)) THEN NSub(NShl(<<1>>, w), p) ELSE p

\* floor(m / 10^k) for a u64 m and k >= 0 (zero from k = 20 on).
Dropped(m, k) == IF k > 19 THEN << >> ELSE NDiv(m, NPow10(k))

\* Whether the integer of magnitude q, below zero when below, is a value of
\* the integer type t, and its pattern there.
FitsType(t, below, q) ==
    IF q = << >> THEN TRUE
    ELSE IF t \in UnsignedTypes THEN ~below /\ NLt(q, NShl(<<1>>, Bits(t)))
    ELSE IF below THEN NLe(q, NShl(<<1>>, Bits(t) - 1))
    ELSE NLt(q, NShl(<<1>>, Bits(t) - 1))

PatternOf(t, below, q) ==
    IF below /\ q # << >> THEN NSub(NShl(<<1>>, Bits(t)), q) ELSE q

\* m * 10^d for d >= 0 where it fits u64 (FitsU64), as a limb sequence.
FitsU64(m, d) == m = << >> \/ (d <= 19 /\ Len(NMul(m, NPow10(d))) <= 4)
Raised(m, d) == IF m = << >> THEN << >> ELSE NMul(m, NPow10(d))

\* round_weed's second test, on small integers: the digit string could as
\* well be one lower and still be the nearest to wp_W + ulp.
TooClose(rest, wp_Wdown, delta, ten_kappa) ==
    /\ rest < wp_Wdown /\ delta - rest >= ten_kappa
    /\ \/ rest + ten_kappa < wp_Wdown
       \/ wp_Wdown - rest > rest + ten_kappa - wp_Wdown

\* What grisu3 asks cached_pow for on the double of pattern u > 0, and the
\* exponent of w once multiplied by the answer.
PowerAsked(u) ==
    MIN_TARGET_EXP - DIYFP_FRACT_SIZE - normalize_diy_fp(double2diy_fp(u)).e
ScaledExp(u) ==
    normalize_diy_fp(double2diy_fp(u)).e + cached_pow(PowerAsked(u)).p.e
        + DIYFP_FRACT_SIZE


\* What largest_pow10 is to hand back for n > 0: power is the largest power
\* of ten not above n and is 10^(kappa - 1), and kappa is the first guess or
\* one less.
LargestPower(n, n_bits, out) ==
    /\ NLe(out.power, n)
    /\ NLt(n, NMulS(out.power, 10))
    /\ out.kappa >= 1
    /\ out.power = NPow10(out.kappa - 1)
    /\ out.kappa \in {LargestGuess(n_bits), LargestGuess(n_bits) - 1}
-----------------------------------------------------------------------------
(* The claims.                                                              *)

\* C1: for every finite double v that write takes, the bytes handed to the
\* sink, read as a decimal literal and rounded to the nearest double, give
\* back v bit for bit.
C1_RoundTrip ==
    (op = "write" /\ pc = "returned" /\ Finite(v)) => ReadsAs(sink, v)

\* 0.012 (0x3F889374BC6A7EFA) comes out as ".0012".
C1_Lost ==
    /\ op = "write" /\ pc = "returned"
    /\ v = H4(\H3F88, \H9374, \HBC6A, \H7EFA)
    /\ sink = Bytes(<<".", "0", "0", "1", "2">>)

\* C2: write completes and emits text for every finite double; where grisu3
\* reports failure it does not panic.
C2_Completes ==
    (op = "write" /\ Finite(v)) => (pc = "returned" /\ panic = "" /\ Len(sink) >= 1)

\* 2^-25 (0x3E60000000000000): grisu3 returns 0 and write panics.
C2_Aborts ==
    /\ op = "write" /\ v = H4(\H3E60, 0, 0, 0) /\ success = 0
    /\ pc = "panicked" /\ panic = "GRISU CANNOT DO!" /\ sink = << >>

\* C3: for every finite double the bytes write emits are a number of JSON's
\* grammar; in particular the text never starts, after the sign, with '.'.
C3_JsonNumber ==
    (op = "write" /\ pc = "returned" /\ Finite(v)) => IsJsonNumber(sink)

\* 0.1 (0x3FB999999999999A) comes out as '.' and a byte write never set.
C3_PointFirst ==
    /\ op = "write" /\ pc = "returned" /\ v = H4(\H3FB9, \H9999, \H9999, \H999A)
    /\ digits = <<49>> /\ d_exp = -1 /\ sink = <<46, uninit>>

\* C4: in the decimal-point layout the output is the first len - decimals
\* digits, '.', the last decimals digits unchanged and in order, then 'e'
\* and the decimal text of d_exp + decimals exactly when that is not zero,
\* and nothing else.
C4_PointLayout ==
    (op = "write" /\ pc = "returned" /\ layout = "point")
        => sink = SignText(v) \o PointText(digits, Decimals(d_exp, Len(digits)),
                                           d_exp + Decimals(d_exp, Len(digits)))

\* 1.5 (0x3FF8000000000000) comes out as "1." and a byte write never set:
\* the '5' is lost.
C4_DigitLost ==
    /\ op = "write" /\ pc = "returned" /\ layout = "point"
    /\ v = H4(\H3FF8, 0, 0, 0) /\ digits = <<49, 53>> /\ d_exp = -1
    /\ sink = <<49, 46, uninit>>

\* C5: in the leading-zero layout the output is "0." followed by zeros and
\* then all the generated digits, and denotes digits * 10^d_exp.
C5_LeadingZeros ==
    (op = "write" /\ pc = "returned" /\ layout = "zero-point")
        => /\ sink = SignText(v) \o ZeroPointText(digits, d_exp)
           /\ ReadsAs(sink, v)

\* 0.012 reaches the layout with two digits and d_exp = -3, and the text
\* starts with '.' and holds two zeros before the digits.
C5_TwoDigits ==
    /\ op = "write" /\ pc = "returned" /\ layout = "zero-point"
    /\ Len(digits) = 2 /\ d_exp = -3
    /\ sink = <<46, 48, 48>> \o digits

\* C6: for every val in -9999..9999, i_to_str writes the decimal text of val
\* and returns the number of bytes written, which is exp_len(val).
C6_DecimalText ==
    (op = "i_to_str" /\ its_val >= -9999 /\ its_val <= 9999)
        => /\ pc = "returned"
           /\ its_ret = exp_len(its_val)
           /\ SubSeq(its_str, 1, its_ret) = DecText(its_val)

\* i_to_str(10, str) in an unchecked build returns 2 and leaves "1" and the
\* byte 26.
C6_Ten ==
    /\ op = "i_to_str" /\ its_val = 10 /\ ~checks /\ pc = "returned"
    /\ its_ret = 2 /\ its_str = <<49, 26, 0>>

\* C7: where grisu3 reports success on a positive finite double, no decimal
\* of fewer significant digits than the ones produced rounds to it.  A
\* shorter decimal, padded with zeros, is a multiple of 10^(d_exp + 1); the
\* rounding interval holds digits * 10^d_exp, so if it holds such a multiple
\* it holds the nearest one below or the nearest one above.
C7_Shortest ==
    (op = "write" /\ success = 1 /\ Len(digits) >= 2)
        => /\ ~RoundsTo(NLow(v, 63), DecValue(SubSeq(digits, 1, Len(digits) - 1)),
                        d_exp + 1)
           /\ ~RoundsTo(NLow(v, 63),
                        NAdd(DecValue(SubSeq(digits, 1, Len(digits) - 1)), <<1>>),
                        d_exp + 1)

\* grisu3 succeeds on the largest finite double with seventeen digits.
C7_Reached ==
    /\ op = "write" /\ success = 1 /\ v = H4(\H7FEF, \HFFFF, \HFFFF, \HFFFF)
    /\ digits = Bytes(<<"1", "7", "9", "7", "6", "9", "3", "1", "3", "4", "8", "6",
                        "2", "3", "1", "5", "7">>)
    /\ d_exp = 292

\* C8: write called with a NaN pattern or an infinity of either sign panics
\* and hands no byte to the sink, not even the '-' of a negative input.
C8_Rejected ==
    (op = "write" /\ ~Finite(v))
        => (pc = "panicked" /\ panic \in {"NAN!", "INF!"} /\ sink = << >>)

\* -Infinity (0xFFF0000000000000) panics with "INF!" and an empty sink.
C8_MinusInf ==
    /\ op = "write" /\ v = H4(\HFFF0, 0, 0, 0)
    /\ pc = "panicked" /\ panic = "INF!" /\ sink = << >>

\* C9: equality does not depend on the representation: from_parts(s, m *
\* 10^k, e - k) == from_parts(s, m, e) in both operand orders whenever m *
\* 10^k fits u64 and e - k fits i16, and two Numbers of mantissa zero are
\* equal whatever their signs and exponents.
C9_SameNumberEqual ==
    (op = "eq" /\ SameNumber(lhs, rhs)) => (pc = "returned" /\ eqres)

\* 500 x 10^-1 == 50 x 10^0 is evaluated, and gives true.
C9_FiveHundred ==
    /\ op = "eq" /\ pc = "returned" /\ eqres
    /\ lhs = from_parts(TRUE, <<500>>, -1) /\ rhs = from_parts(TRUE, <<50>>, 0)

\* C10: the NaN sentinel is equal to itself and to any other Number tagged
\* NaN (the negated sentinel too), and unequal, in both operand orders, to
\* every Number from_parts builds, zero included.
C10_NaNApart ==
    op = "eq"
        => /\ (lhs.category \notin {NEGATIVE, POSITIVE}
                   /\ rhs.category \notin {NEGATIVE, POSITIVE})
                  => (pc = "returned" /\ eqres)
           /\ ((lhs.category \in {NEGATIVE, POSITIVE})
                   # (rhs.category \in {NEGATIVE, POSITIVE}))
                  => (pc = "returned" /\ ~eqres)

\* -NAN == from_parts(false, 0, 0) is evaluated, and gives false.
C10_NegatedNaN ==
    /\ op = "eq" /\ pc = "returned" /\ ~eqres
    /\ lhs = neg(NAN) /\ lhs.category = 255 /\ rhs = from_parts(FALSE, << >>, 0)

\* C11: for every value i of every native integer type, its least and
\* greatest included, Number::from(i) and the conversion back complete
\* without a fatal error and give i.
C11_IntRoundTrip ==
    /\ op = "from_int" => pc = "built"
    /\ (op = "into_int" /\ cv_rt) => (pc = "returned" /\ cv_out = cv_int)

\* Number::from(i64::MIN) in a build that checks overflow panics on -num.
C11_MinPanics ==
    /\ op = "from_int" /\ cv_ty = "i64" /\ cv_int = MinPat(64) /\ checks
    /\ pc = "panicked" /\ panic = "attempt to negate with overflow"

\* C12: for every value v of every signed integer type, the least included,
\* Number::from(v) has exponent 0, mantissa |v| and a negative sign exactly
\* when v < 0.
C12_SignMagnitude ==
    (op = "from_int" /\ cv_ty \in SignedTypes)
        => /\ pc = "built"
           /\ cv_num.exponent = 0
           /\ cv_num.mantissa = AbsOf(cv_int, Bits(cv_ty))
           /\ cv_num.category
                  = (IF NGe(cv_int, NShl(<<1>>, Bits(cv_ty) - 1)) THEN NEGATIVE
                     ELSE POSITIVE)

\* Number::from(i8::MIN) in a build without overflow checks has mantissa
\* 2^64 - 128, not 128.
C12_MinI8 ==
    /\ op = "from_int" /\ cv_ty = "i8" /\ cv_int = <<128>> /\ ~checks /\ pc = "built"
    /\ cv_num = Number(NEGATIVE, 0, H4(\HFFFF, \HFFFF, \HFFFF, \HFF80))

\* C13: converting a Number of exponent e <= 0, mantissa m and sign s to an
\* integer type gives s * floor(m / 10^(-e)) whenever that fits the type.
C13_Truncates ==
    (/\ op = "into_int" /\ cv_num.category \in {NEGATIVE, POSITIVE}
     /\ cv_num.exponent <= 0
     /\ FitsType(cv_ty, cv_num.category = NEGATIVE,
                 Dropped(cv_num.mantissa, -cv_num.exponent)))
        => /\ pc = "returned"
           /\ cv_out = PatternOf(cv_ty, cv_num.category = NEGATIVE,
                                 Dropped(cv_num.mantissa, -cv_num.exponent))

\* i64::from(from_parts(true, 500, -1)) gives 500, not 50.
C13_FiveHundred ==
    /\ op = "into_int" /\ pc = "returned" /\ cv_ty = "i64"
    /\ cv_num = from_parts(TRUE, <<500>>, -1) /\ cv_out = <<500>>

\* C14: as_fixed_point_u64(point) is None exactly for a negative or NaN
\* Number; for a positive Number of mantissa m and exponent e, with d =
\* point + e, it is Some(m * 10^d) when d >= 0 and the product fits u64, and
\* Some(floor(m / 10^(-d))) when d < 0.
C14_FixedPoint ==
    op = "as_fixed_point_u64"
        => /\ cv_num.category # POSITIVE => (pc = "returned" /\ ~fx_out.some)
           /\ (/\ cv_num.category = POSITIVE /\ fx_point + cv_num.exponent >= 0
               /\ FitsU64(cv_num.mantissa, fx_point + cv_num.exponent))
                  => /\ pc = "returned" /\ fx_out.some
                     /\ fx_out.value
                            = Raised(cv_num.mantissa, fx_point + cv_num.exponent)
           /\ (cv_num.category = POSITIVE /\ fx_point + cv_num.exponent < 0)
                  => /\ pc = "returned" /\ fx_out.some
                     /\ fx_out.value
                            = Dropped(cv_num.mantissa, -(fx_point + cv_num.exponent))

\* from_parts(true, 7, -64).as_fixed_point_u64(0) divides by 10^64 wrapped
\* to u64, which is zero.
C14_DividesByZero ==
    /\ op = "as_fixed_point_u64" /\ ~checks /\ fx_point = 0
    /\ cv_num = from_parts(TRUE, <<7>>, -64)
    /\ pc = "panicked" /\ panic = "attempt to divide by zero"

\* C15: on Numbers that from_parts built from any mantissa and exponent,
\* equality, the conversion to every integer type and as_fixed_point_u64 /
\* as_fixed_point_i64 at any point complete and return a value: no overflow
\* is fatal and nothing divides by zero.
C15_NeverFatal ==
    /\ (op = "eq" /\ lhs.category \in {NEGATIVE, POSITIVE}
                  /\ rhs.category \in {NEGATIVE, POSITIVE})
           => (pc = "returned" /\ panic = "")
    /\ (op \in {"into_int", "as_fixed_point_u64", "as_fixed_point_i64"}
            /\ cv_num.category \in {NEGATIVE, POSITIVE})
           => (pc = "returned" /\ panic = "")

\* from_parts(false, 7, -64).as_fixed_point_i64(0) in a build without
\* overflow checks divides by zero.
C15_SignedDividesByZero ==
    /\ op = "as_fixed_point_i64" /\ ~checks /\ fx_point = 0
    /\ cv_num = from_parts(FALSE, <<7>>, -64)
    /\ pc = "panicked" /\ panic = "attempt to divide by zero"

\* C16: where grisu3 reports success on a positive finite double v, the
\* integer its digits form, times 10^d_exp, lies strictly between the
\* midpoints from v to the doubles before and after it.
C16_InsideInterval ==
    (op = "write" /\ success = 1)
        => Inside(NLow(v, 63), DecValue(digits), d_exp)

\* grisu3 succeeds on 0.3 (0x3FD3333333333333) with the digit 3 and d_exp
\* = -1.
C16_ThreeTenths ==
    /\ op = "write" /\ success = 1 /\ v = H4(\H3FD3, \H3333, \H3333, \H3333)
    /\ digits = <<51>> /\ d_exp = -1

\* C17 as the specification words it: round_weed returns 1 only if the
\* final rest lies strictly between 2 * ulp and delta - 4 * ulp (for delta
\* >= 4 * ulp, where the difference does not wrap).
C17_StrictBounds ==
    (op = "round_weed" /\ fn_out.ret = 1 /\ 4 * ToInt(fn_args[5]) <= ToInt(fn_args[2]))
        => /\ 2 * ToInt(fn_args[5]) < ToInt(fn_out.rest)
           /\ ToInt(fn_out.rest) < ToInt(fn_args[2]) - 4 * ToInt(fn_args[5])

\* C17, amended: for delta >= 4 * ulp, round_weed returns 1 exactly when its
\* second test lets the final rest pass and 2 * ulp <= rest <= delta - 4 *
\* ulp: both bounds are included, and a rest equal to either is a success.
C17_InclusiveBounds ==
    (op = "round_weed" /\ 4 * ToInt(fn_args[5]) <= ToInt(fn_args[2]))
        => /\ fn_out.ret \in {0, 1}
           /\ fn_out.ret = 1
                  <=> /\ ~TooClose(ToInt(fn_out.rest), ToInt(fn_args[1]) + ToInt(fn_args[5]),
                                   ToInt(fn_args[2]), ToInt(fn_args[4]))
                      /\ 2 * ToInt(fn_args[5]) <= ToInt(fn_out.rest)
                      /\ ToInt(fn_out.rest) <= ToInt(fn_args[2]) - 4 * ToInt(fn_args[5])

\* round_weed(buffer, len, 3, 9, 2, 4, 1) returns 1 with rest = 2 = 2 * ulp.
C17_OnLowerBound ==
    /\ op = "round_weed" /\ fn_args = <<<<3>>, <<9>>, <<2>>, <<4>>, <<1>>>>
    /\ fn_out.ret = 1 /\ fn_out.rest = <<2>>

\* C18: on every positive finite double, grisu3 meets no failed assertion
\* (of normalize_diy_fp or minus), no index outside POW_CACHE, no shift
\* amount outside 0..63 and no arithmetic that leaves its type (a build that
\* checks arithmetic reports each of these as a panic); the index is in
\* 0..86 and the scaled exponent of w in -60..-32.
C18_Preconditions ==
    (op = "write" /\ Finite(v) /\ NLow(v, 63) # << >>)
        => /\ panic \notin {"assertion failed", "arithmetic overflow"}
           /\ CachedIndex(PowerAsked(NLow(v, 63))) \in 0..86
           /\ ScaledExp(NLow(v, 63)) \in MIN_TARGET_EXP..-32

\* grisu3 runs to its end on the least subnormal (bits 0x1) or on the
\* greatest finite double in a build that checks arithmetic.
C18_Extremes ==
    /\ op = "write" /\ checks /\ success = 1
    /\ \/ v = <<1>> /\ digits = <<53>> /\ d_exp = -324
       \/ v = H4(\H7FEF, \HFFFF, \HFFFF, \HFFFF) /\ Len(digits) = 17 /\ d_exp = 292


\* C19: multiply returns the significand floor((x.f * y.f + 2^63) / 2^64),
\* the upper 64 bits of the exact product rounded to nearest with halves up,
\* and the exponent x.e + y.e + 64, and none of its 64-bit products and sums
\* leaves u64 (so no build panics in it).
C19_ExactProduct ==
    (op = "multiply")
        => /\ fn_out.value.f
                  = NShr(NAdd(NMul(fn_args[1].f, fn_args[2].f), NShl(<<1>>, 63)), 64)
           /\ fn_out.value.e = fn_args[1].e + fn_args[2].e + 64
           /\ ~fn_out.ovf
           /\ panic = ""

\* multiply has rounded a half up: (2^63 + 1) * 2^63 is 2^126 + 2^63, whose
\* upper 64 bits are 2^62 and whose rounded value is 2^62 + 1.
C19_HalfUp ==
    /\ op = "multiply" /\ pc = "returned"
    /\ fn_args[1].f = H4(\H8000, 0, 0, 1)
    /\ fn_args[2].f = H4(\H8000, 0, 0, 0)
    /\ fn_out.value.f = H4(\H4000, 0, 0, 1)

\* C20 as stated: for every n_bits in 1..32 and every n with
\* 1 <= n < 2^n_bits, largest_pow10(n, n_bits) sets power to the largest
\* power of ten <= n and returns kappa with power = 10^(kappa - 1), after at
\* most one step down from the guess made from n_bits.
C20_AnyCount ==
    (/\ op = "largest_pow10"
     /\ fn_args[2] \in 1..32
     /\ NGe(fn_args[1], <<1>>)
     /\ NLt(fn_args[1], NShl(<<1>>, fn_args[2])))
        => LargestPower(fn_args[1], fn_args[2], fn_out)

\* C20: for every n_bits in 1..32 and every n with 1 <= n and
\* 2^(n_bits - 2) <= n < 2^n_bits (n has n_bits bits or one fewer, as
\* digit_gen's p1 has), largest_pow10(n, n_bits) sets power to the largest
\* power of ten <= n and returns kappa with power = 10^(kappa - 1), after at
\* most one step down from the guess made from n_bits.
C20_NearCount ==
    (/\ op = "largest_pow10"
     /\ fn_args[2] \in 1..32
     /\ NGe(fn_args[1], <<1>>)
     /\ NGe(NShl(fn_args[1], 2), NShl(<<1>>, fn_args[2]))
     /\ NLt(fn_args[1], NShl(<<1>>, fn_args[2])))
        => LargestPower(fn_args[1], fn_args[2], fn_out)

\* largest_pow10(999999999, 30) has stepped down from its guess 10 to
\* kappa 9 and power 10^8.
C20_SteppedDown ==
    /\ op = "largest_pow10"
    /\ fn_args = <<N(999999999), 30>>
    /\ LargestGuess(30) = 10
    /\ fn_out = [kappa |-> 9, power |-> N(100000000)]

\* C21: every byte write hands to the sink was written by the conversion in
\* the same call, so the bytes handed over do not depend on what the cells
\* of buf held before the call.
C21_OnlyWritten ==
    (op = "write")
        => \A un \in UninitBytes : write(v, un, checks).sink = sink

\* write(-1.5) has handed over "-1." and then the byte that s2[len + 1] held
\* when buf was made: the copy loop of the decimal-point layout read the
\* cell above the digits, which nothing had written.
C21_UnwrittenRead ==
    /\ op = "write" /\ pc = "returned" /\ layout = "point"
    /\ v = H4(\HBFF8, 0, 0, 0) /\ digits = <<49, 53>>
    /\ sink = <<45, 49, 46, uninit>>
    /\ \E un \in UninitBytes : write(v, un, checks).sink # sink

\* C22: two Numbers that from_parts built compare equal only if they denote
\* the same real value sign x mantissa x 10^exponent (or both are zero); a
\* Number of non-zero mantissa is never equal to a zero Number.
C22_EqualOnlyIfSame ==
    (/\ op = "eq" /\ pc = "returned" /\ eqres
     /\ lhs.category \in {NEGATIVE, POSITIVE}
     /\ rhs.category \in {NEGATIVE, POSITIVE})
        => SameNumber(lhs, rhs)

\* 2^63 x 10^1 == 0 x 10^0 is evaluated in a build that checks arithmetic,
\* and gives true: 2^63 * 10 is 5 * 2^64, which wrapping_mul brings to 0.
C22_HalfRangeIsZero ==
    /\ op = "eq" /\ pc = "returned" /\ checks /\ eqres
    /\ lhs = from_parts(TRUE, H4(\H8000, 0, 0, 0), 1)
    /\ rhs = from_parts(TRUE, << >>, 0)
    /\ WMulS(lhs.mantissa, 10) = << >>
=============================================================================
